---- MODULE Spec2Model ----
(***************************************************************************)
(* A model of the MQL compiler of snuba/query/mql/parser_supported_join.py *)
(* (the visitor, the formula/join compiler, the context population).       *)
(*                                                                         *)
(* Representation of Python values:                                        *)
(*  - a str that the code indexes (an MRI, a table alias) is a sequence of *)
(*    one-character strings; "" and None are both <<>> for these fields    *)
(*    (the code only tests them with `not x` / `x or ""`);                 *)
(*  - other names (column names, function names, aliases of expressions)   *)
(*    are TLA+ strings, None being the string None below;                  *)
(*  - an optional list (groupby, conditions, parameters) is a sequence,    *)
(*    None being <<>>: every list the visitor assigns is non-empty, and    *)
(*    the code reads these fields through `x or []` / `if x`;              *)
(*  - a dataclass is a record with a `type` field naming its class.        *)
(***************************************************************************)
EXTENDS Integers, Sequences, FiniteSets, TLC

VARIABLES
    vocab,        \* the vocabulary the query text is written over
    stack,        \* results of the visitor's handlers not yet consumed by a parent rule
    rule,         \* for each stack entry, the grammar rule whose result it is
    alias_count,  \* MQLVisitor.alias_count
    extras,       \* numbers, clauses, unary operators and functions consumed so far
    pc,           \* "visit" | "done" ("idle": no query text is being compiled)
    body_dataset, \* the dataset parse_mql_query_body was called with
    outcome,      \* the exception parse_mql_query_body raised (NoException: it returned)
    plan,         \* the query it returned
    visitors,     \* for each caller, the MQLVisitor of its current parse_mql_query_body
    mql_context,  \* the MQLContext handed to the populate_* functions
    context_query,   \* the query they populate
    context_outcome, \* the exception raised while populating (NoException: none)
    context_pc,      \* "populate" | "done" ("idle": no query is being populated)
    context_call,    \* the populate_* function that is called
    call,            \* a call of one function of the module: its name and arguments
    call_result,     \* what the call returned or raised (NoneValue: it has not run yet)
    pipeline_input,  \* the arguments of parse_mql_query_new
    pipeline_pc,     \* "stage_a" | "treeify" | "stage_b" | "done" ("idle": no call)
    pipeline_steps,  \* the steps of the current stage that are still to run, in order
    pipeline_calls,  \* the steps that have run so far, in order
    res,             \* the QueryPipelineResult of the current stage: its data and error
    pipeline_outcome, \* what parse_mql_query_new returned or raised (NoneValue: not yet)
    settings_passed, \* for each step that has run, the settings it was called with
    trace_query,     \* the query run_query_and_get_trace was called with
    trace_pc,        \* "validate" | "connect" | "execute" | "done" ("idle": no call)
    connections,     \* the connections obtained so far
    executed,        \* the queries executed so far, in order
    trace_outcome    \* the exception run_query_and_get_trace raised (NoException: none)

body_vars == <<vocab, stack, rule, alias_count, extras, pc, body_dataset, outcome, plan>>
visitor_vars == <<visitors>>
context_vars == <<mql_context, context_query, context_outcome, context_pc, context_call>>
function_vars == <<call, call_result>>
pipeline_vars ==
    <<pipeline_input, pipeline_pc, pipeline_steps, pipeline_calls, res, pipeline_outcome,
      settings_passed>>
trace_vars == <<trace_query, trace_pc, connections, executed, trace_outcome>>
vars == <<body_vars, visitor_vars, context_vars, function_vars, pipeline_vars, trace_vars>>

----------------------------------------------------------------------------
(* Bounds of the model *)

\* identifiers, numbers, filter and group-by clauses, unary operators and function
\* applications in one query text
MaxTokens == 4

\* identifiers in the query text of one caller (two callers compile side by side)
MaxIdentifiers == 2

\* calls of parse_mql_query_body by one caller
MaxCalls == 2

----------------------------------------------------------------------------
(* Python values and the expression dataclasses (snuba.query.expressions) *)

None == "None"
NoneValue == [type |-> "NoneType"]

Float(n) == [type |-> "float", f |-> n]
Str(s) == [type |-> "str", s |-> s]
StrOfChars(cs) == [type |-> "str", chars |-> cs]

Column(alias, table_name, column_name) ==
    [type |-> "Column", alias |-> alias, table_name |-> table_name,
     column_name |-> column_name]

Literal(alias, value) == [type |-> "Literal", alias |-> alias, value |-> value]

FunctionCall(alias, function_name, parameters) ==
    [type |-> "FunctionCall", alias |-> alias, function_name |-> function_name,
     parameters |-> parameters]

CurriedFunctionCall(alias, internal_function, parameters) ==
    [type |-> "CurriedFunctionCall", alias |-> alias,
     internal_function |-> internal_function, parameters |-> parameters]

SelectedExpression(name, expression) ==
    [type |-> "SelectedExpression", name |-> name, expression |-> expression]

AGGREGATE_ALIAS == "aggregate_value"

InitialParseResult(expression, formula, parameters, groupby, conditions, mri, table_alias) ==
    [type |-> "InitialParseResult", expression |-> expression, formula |-> formula,
     parameters |-> parameters, groupby |-> groupby, conditions |-> conditions,
     mri |-> mri, table_alias |-> table_alias]

IsInitialParseResult(v) == v.type = "InitialParseResult"
IsNumber(v) == v.type = "float"

ARITHMETIC_OPERATORS_MAPPING ==
    [op \in {"+", "-", "*", "/"} |->
        CASE op = "+" -> "plus" [] op = "-" -> "minus"
          [] op = "*" -> "multiply" [] op = "/" -> "divide"]

UNARY_OPERATORS == [op \in {"-"} |-> "negate"]

----------------------------------------------------------------------------
(* Inputs of the visitor: what the grammar hands to the handlers.  The     *)
(* grammar itself (snuba_sdk.mql.mql.MQL_GRAMMAR) is a library; the rule   *)
(* names below are the ones the handlers are named after.                  *)

MRIs == {<<"d", ":", "a">>, <<"g", ":", "b">>}
FirstChars == {m[1] : m \in MRIs}
Numbers == {2}
AggregateNames == {"sum"}
CurriedAggregateNames == {"quantiles"}
\* quantile levels, in tenths (quantiles(0.5) is <<Float(5)>>)
CurriedAggregateParams == {<<[type |-> "float", f |-> 5]>>}
ArbitraryFunctionNames == {"apdex"}
CurriedArbitraryFunctionNames == {"topK"}
FunctionParams == {<<[type |-> "float", f |-> 2]>>}
ExprOps == {"+"}
TermOps == {"/"}
GroupByNames == {<<"x">>, <<"x", "y">>, <<"y", "x">>}

----------------------------------------------------------------------------
(* MQLVisitor: the filter handlers *)

\* rhs is a str ([type |-> "str"]) or a list of str ([type |-> "list"])
visit_filter_factor(condition_op, lhs, rhs) ==
    LET condition_op_value ==
            IF Len(condition_op) = 1 /\ condition_op[1] = "!" THEN "!" ELSE ""
    IN  IF rhs.type = "list"
        THEN FunctionCall(None,
                          IF condition_op_value = "" THEN "in" ELSE "notIn",
                          <<Column(None, <<>>, lhs),
                            FunctionCall(None, "tuple",
                                [i \in DOMAIN rhs.items |-> Literal(None, Str(rhs.items[i]))])>>)
        ELSE FunctionCall(None,
                          IF condition_op_value = "" THEN "equals" ELSE "notEquals",
                          <<Column(None, <<>>, lhs), Literal(None, Str(rhs.s))>>)

\* children = (first, zero_or_more_others), given here as the one sequence `filters`
filter_(filters, operator) ==
    IF Len(filters) = 1 THEN filters[1] ELSE FunctionCall(None, operator, filters)

visit_filter_expr(children) == filter_(children, "or")

visit_filter_term(children) == filter_(children, "and")

\* {a:"1"}  and  {!b:"2", c:["3","4"]}
FilterExprs ==
    { visit_filter_expr(<<visit_filter_term(<<visit_filter_factor(<<>>, "a", Str("1"))>>)>>),
      visit_filter_expr(<<visit_filter_term(
          <<visit_filter_factor(<<"!">>, "b", Str("2")),
            visit_filter_factor(<<>>, "c", [type |-> "list", items |-> <<"3", "4">>])>>)>>) }

visit_group_by(groupby) ==
    [i \in DOMAIN groupby |->
        SelectedExpression(groupby[i], Column(groupby[i], <<>>, groupby[i]))]

GroupBys == {visit_group_by(g) : g \in GroupByNames}

\* An optional clause of the text: absent is <<>>
Opt(S) == {<<>>} \cup {<<x>> : x \in S}
OptList(S) == {<<>>} \cup S

\* ({ filter_expr })? group_by? : a filter, a group-by, both or neither
NoClause == << <<>>, <<>> >>
FilterOnly == {<< <<f>>, <<>> >> : f \in FilterExprs}
GroupByOnly == {<< <<>>, g>> : g \in GroupBys}
FilterAndGroupBy == {<< <<f>>, visit_group_by(<<"x">>)>> : f \in FilterExprs}

\* The query texts are written over one of these vocabularies: the identifiers,
\* aggregates, clauses, numbers, unary operators and functions that may occur.
Vocabulary(mris, aggregates, curried, clauses, numbers, unary, functions, curried_functions, expr_ops, term_ops) ==
    [mris |-> mris, aggregates |-> aggregates, curried |-> curried, clauses |-> clauses,
     numbers |-> numbers, unary |-> unary, functions |-> functions,
     curried_functions |-> curried_functions, expr_ops |-> expr_ops, term_ops |-> term_ops]

Vocabularies ==
    { Vocabulary({<<"d", ":", "a">>}, AggregateNames, {}, GroupByOnly, {}, {}, {}, {},
                 ExprOps, {}),
      Vocabulary({<<"d", ":", "a">>}, AggregateNames, {},
                 FilterOnly \cup {<< <<>>, visit_group_by(<<"x">>)>>}, {}, {}, {}, {},
                 ExprOps, {}),
      Vocabulary(MRIs, AggregateNames, {}, {}, {}, {}, {}, {}, ExprOps, {}),
      Vocabulary({<<"d", ":", "a">>}, AggregateNames, {}, {}, Numbers, {"-"}, {}, {},
                 ExprOps, TermOps),
      Vocabulary({<<"d", ":", "a">>}, AggregateNames, CurriedAggregateNames, {}, {}, {},
                 ArbitraryFunctionNames, CurriedArbitraryFunctionNames, {}, TermOps) }

----------------------------------------------------------------------------
(* MQLVisitor: identifiers and aliases *)

DigitChar == <<"0", "1", "2", "3", "4", "5", "6", "7", "8", "9">>

RECURSIVE DecimalString(_)
DecimalString(n) ==
    IF n < 10 THEN <<DigitChar[n + 1]>>
    ELSE DecimalString(n \div 10) \o <<DigitChar[(n % 10) + 1]>>

\* alias_count.setdefault(alias, -1): a character without an entry counts as -1
EmptyAliasCount == [c \in FirstChars |-> -1]

\* a counter dict that all visitors start from as the first caller's visitor left it
MQLVisitor_init_shared ==
    IF visitors = <<>> THEN EmptyAliasCount ELSE visitors[1].alias_count

\* MQLVisitor.__init__: self.alias_count = {}
MQLVisitor_init == EmptyAliasCount

\* a suffix that does not count
generate_table_alias_suffix_fixed(count, mri) == 0 * count[mri[1]]

generate_table_alias_suffix(count, mri) == count[mri[1]] + 1

generate_table_alias_count(count, mri) ==
    [count EXCEPT ![mri[1]] = generate_table_alias_suffix(count, mri)]

generate_table_alias(count, mri) ==
    <<mri[1]>> \o DecimalString(generate_table_alias_suffix(count, mri))

visit_unquoted_mri(count, mri) ==
    InitialParseResult(NoneValue, None, <<>>, <<>>, <<>>, mri,
                       generate_table_alias(count, mri))

----------------------------------------------------------------------------
(* MQLVisitor: arithmetic *)

\* the formula node takes over the expression of its first operand
visit_expression_with_expression(term, zero_or_more_others) ==
    IF zero_or_more_others # <<>>
    THEN LET term_operator == zero_or_more_others[1][1]
             coefficient == zero_or_more_others[1][2]
         IN  InitialParseResult(IF IsInitialParseResult(term) THEN term.expression
                                ELSE NoneValue,
                                term_operator, <<term, coefficient>>,
                                <<>>, <<>>, <<>>, <<>>)
    ELSE term

\* zero_or_more_others: a sequence of <<operator, operand>>
visit_expression(term, zero_or_more_others) ==
    IF zero_or_more_others # <<>>
    THEN LET term_operator == zero_or_more_others[1][1]
             coefficient == zero_or_more_others[1][2]
         IN  InitialParseResult(NoneValue, term_operator, <<term, coefficient>>,
                                <<>>, <<>>, <<>>, <<>>)
    ELSE term

visit_term(term, zero_or_more_others) ==
    IF zero_or_more_others # <<>>
    THEN LET term_operator == zero_or_more_others[1][1]
             unary == zero_or_more_others[1][2]
         IN  InitialParseResult(NoneValue, term_operator, <<term, unary>>,
                                <<>>, <<>>, <<>>, <<>>)
    ELSE term

visit_unary_raises(unary_op, coefficient) ==
    IF unary_op = <<>> THEN FALSE
    ELSE ~IsNumber(coefficient) /\ ~IsInitialParseResult(coefficient)

\* the number comes back as it was
visit_unary_number_kept(unary_op, coefficient) ==
    IF unary_op # <<>>
    THEN IF IsNumber(coefficient) THEN coefficient
         ELSE InitialParseResult(NoneValue, unary_op[1], <<coefficient>>,
                                 <<>>, <<>>, <<>>, <<>>)
    ELSE coefficient

visit_unary(unary_op, coefficient) ==
    IF unary_op # <<>>
    THEN IF IsNumber(coefficient) THEN Float(-coefficient.f)
         ELSE InitialParseResult(NoneValue, unary_op[1], <<coefficient>>,
                                 <<>>, <<>>, <<>>, <<>>)
    ELSE coefficient

----------------------------------------------------------------------------
(* MQLVisitor: filter and group-by attachment *)

RECURSIVE pushdown_values_raises(_)
pushdown_values_raises(param) ==
    IF ~IsInitialParseResult(param) THEN FALSE
    ELSE IF param.formula # None
    THEN \E i \in DOMAIN param.parameters : pushdown_values_raises(param.parameters[i])
    ELSE param.expression = NoneValue

RECURSIVE pushdown_values(_, _, _)
pushdown_values(param, new_condition, groupby) ==
    IF ~IsInitialParseResult(param) THEN param
    ELSE IF param.formula # None
    THEN [param EXCEPT !.parameters =
            [i \in DOMAIN param.parameters |->
                pushdown_values(param.parameters[i], new_condition, groupby)]]
    ELSE [param EXCEPT
            !.conditions = IF new_condition # <<>> THEN @ \o new_condition ELSE @,
            !.groupby = IF groupby # <<>> THEN @ \o groupby ELSE @]

\* new_condition: <<>> or <<condition>>; groupby: <<>> or the group-by columns.
\* A number has no attribute `formula`: AttributeError inside the visitor.
visit_filter_raises(target, new_condition, groupby) ==
    IF new_condition = <<>> /\ groupby = <<>> THEN FALSE
    ELSE IF ~IsInitialParseResult(target) THEN TRUE
    ELSE IF target.formula = None THEN FALSE
    ELSE \E i \in DOMAIN target.parameters :
            pushdown_values_raises(target.parameters[i])

\* the clauses stay on the formula node
visit_filter_onto_target(target, new_condition, groupby) ==
    IF new_condition # <<>> \/ groupby # <<>>
    THEN [target EXCEPT
            !.conditions = IF new_condition # <<>> THEN @ \o new_condition ELSE @,
            !.groupby = IF groupby # <<>> THEN @ \o groupby ELSE @]
    ELSE target

visit_filter(target, new_condition, groupby) ==
    IF new_condition # <<>> \/ groupby # <<>>
    THEN IF target.formula # None
         THEN [target EXCEPT !.parameters =
                [i \in DOMAIN target.parameters |->
                    pushdown_values(target.parameters[i], new_condition, groupby)]]
         ELSE [target EXCEPT
                !.conditions = IF new_condition # <<>> THEN @ \o new_condition ELSE @,
                !.groupby = IF groupby # <<>> THEN @ \o groupby ELSE @]
    ELSE target

visit_function(target, packed_groupbys) ==
    IF packed_groupbys # <<>> THEN [target EXCEPT !.groupby = packed_groupbys]
    ELSE target

visit_inner_filter(target, filters, packed_groupbys) ==
    IF filters = <<>> /\ packed_groupbys = <<>> THEN target
    ELSE [target EXCEPT
            !.conditions = IF filters # <<>> THEN filters ELSE @,
            !.groupby = IF packed_groupbys # <<>> THEN packed_groupbys ELSE @]

----------------------------------------------------------------------------
(* MQLVisitor: aggregates and functions *)

visit_aggregate(aggregate_name, target) ==
    [target EXCEPT !.expression =
        SelectedExpression(AGGREGATE_ALIAS,
            FunctionCall(AGGREGATE_ALIAS, aggregate_name,
                         <<Column(None, <<>>, "value")>>))]

visit_curried_aggregate(aggregate_name, aggregate_params, target) ==
    [target EXCEPT !.expression =
        SelectedExpression(AGGREGATE_ALIAS,
            CurriedFunctionCall(AGGREGATE_ALIAS,
                FunctionCall(None, aggregate_name,
                    [i \in DOMAIN aggregate_params |-> Literal(None, aggregate_params[i])]),
                <<Column(None, <<>>, "value")>>))]

\* the handler's asserts (and the attribute reads before them) fail on a number,
\* on a node without an expression and on a curried aggregate
visit_arbitrary_function_raises(target) ==
    IF ~IsInitialParseResult(target) THEN TRUE
    ELSE IF target.expression = NoneValue THEN TRUE
    ELSE target.expression.expression.type # "FunctionCall"

visit_arbitrary_function(arbitrary_function_name, target, params) ==
    LET aggregate == FunctionCall(None, target.expression.expression.function_name,
                                  target.expression.expression.parameters)
    IN  [target EXCEPT !.expression =
            SelectedExpression(target.expression.name,
                FunctionCall(target.expression.name, arbitrary_function_name,
                    <<aggregate>> \o [i \in DOMAIN params |-> Literal(None, params[i])]))]

visit_curried_arbitrary_function_raises(target) ==
    IF ~IsInitialParseResult(target) THEN TRUE
    ELSE target.expression = NoneValue

visit_curried_arbitrary_function(name, aggregate_params, target, params) ==
    [target EXCEPT !.expression =
        SelectedExpression(target.expression.name,
            CurriedFunctionCall(None,
                FunctionCall(None, name,
                    [i \in DOMAIN aggregate_params |-> Literal(None, aggregate_params[i])]),
                <<target.expression.expression>>
                    \o [i \in DOMAIN params |-> Literal(None, params[i])]))]

----------------------------------------------------------------------------
(* Exceptions and results.  An operator that can raise returns a result    *)
(* record: `exc` is the exception (NoException when it returned) and       *)
(* `value` what it returned.                                               *)

NoException == [class |-> None, message |-> ""]
Exception(class, message) == [class |-> class, message |-> message]
Raised(class, message) == [exc |-> Exception(class, message), value |-> NoneValue]
Returned(value) == [exc |-> NoException, value |-> value]

\* The first exception of a sequence of results, in order (NoException if none)
RECURSIVE FirstException(_)
FirstException(results) ==
    IF results = <<>> THEN NoException
    ELSE IF Head(results).exc # NoException THEN Head(results).exc
    ELSE FirstException(Tail(results))

RECURSIVE Concat(_)
Concat(seqs) == IF seqs = <<>> THEN <<>> ELSE Head(seqs) \o Concat(Tail(seqs))

binary_condition(function_name, lhs, rhs) == FunctionCall(None, function_name, <<lhs, rhs>>)

----------------------------------------------------------------------------
(* Entity resolution *)

METRICS_ENTITIES ==
    [c \in {"c", "d", "s"} |->
        CASE c = "c" -> "METRICS_COUNTERS" [] c = "d" -> "METRICS_DISTRIBUTIONS"
          [] c = "s" -> "METRICS_SETS"]

GENERIC_ENTITIES ==
    [c \in {"c", "d", "s", "g"} |->
        CASE c = "c" -> "GENERIC_METRICS_COUNTERS"
          [] c = "d" -> "GENERIC_METRICS_DISTRIBUTIONS"
          [] c = "s" -> "GENERIC_METRICS_SETS"
          [] c = "g" -> "GENERIC_METRICS_GAUGES"]

Datasets == {"metrics", "generic_metrics"}

\* a lookup in the table of the generic dataset, whatever the dataset
select_entity_any_dataset(mri, dataset) ==
    IF mri = <<>> THEN Raised("IndexError", "string index out of range")
    ELSE IF mri[1] \in DOMAIN GENERIC_ENTITIES
    THEN Returned(GENERIC_ENTITIES[mri[1]])
    ELSE Raised("ParsingException", "invalid metric type " \o mri[1])

\* mri[0] of an empty string is an IndexError
select_entity(mri, dataset) ==
    IF mri = <<>> THEN Raised("IndexError", "string index out of range")
    ELSE IF dataset = "metrics" /\ mri[1] \in DOMAIN METRICS_ENTITIES
    THEN Returned(METRICS_ENTITIES[mri[1]])
    ELSE IF dataset = "generic_metrics" /\ mri[1] \in DOMAIN GENERIC_ENTITIES
    THEN Returned(GENERIC_ENTITIES[mri[1]])
    ELSE Raised("ParsingException", "invalid metric type " \o mri[1])

\* QueryEntity(key, get_entity(key).get_data_model()): the schema is the entity's own.
\* `id` tells the objects of a join apart: it is the alias of the leaf the object was
\* built for (<<>> for the one object of a single-source plan)
QueryEntity(key) == [type |-> "Entity", key |-> key, id |-> <<>>]

----------------------------------------------------------------------------
(* Plans *)

IndividualNode(alias, data_source) ==
    [type |-> "IndividualNode", alias |-> alias, data_source |-> data_source]

JoinConditionExpression(table_alias, column) ==
    [table_alias |-> table_alias, column |-> column]

JoinCondition(left, right) == [left |-> left, right |-> right]

JoinClause(left_node, right_node, keys, join_type) ==
    [type |-> "JoinClause", left_node |-> left_node, right_node |-> right_node,
     keys |-> keys, join_type |-> join_type]

\* condition is the list of conjuncts (combine_and_conditions / add_condition_to_ast)
\* a new query has no order-by, no totals, no limit and offset 0
Query(class, from_clause, selected_columns, condition, groupby) ==
    [type |-> class, from_clause |-> from_clause, selected_columns |-> selected_columns,
     condition |-> condition, groupby |-> groupby, orderby |-> <<>>, totals |-> FALSE,
     limit |-> [type |-> "NoneType"], offset |-> 0]

NoQuery == [type |-> "NoneType"]

----------------------------------------------------------------------------
(* build_formula_query_from_clause *)

\* `None` (the tree is a number) is returned as <<>>: the caller only tests `if found`
RECURSIVE find_all_leaf_nodes(_)
find_all_leaf_nodes(tree) ==
    IF IsInitialParseResult(tree) /\ tree.formula = None THEN <<tree>>
    ELSE IF IsInitialParseResult(tree) /\ tree.formula # None
    THEN Concat([i \in DOMAIN tree.parameters |-> find_all_leaf_nodes(tree.parameters[i])])
    ELSE <<>>

\* a new entity object for every leaf
setdefault_new(entities, entity_key, data_source) == data_source

\* entities.setdefault(entity_key, data_source): the object kept for the key, which is
\* data_source if there was none; `entities` is the list of the objects kept
setdefault(entities, entity_key, data_source) ==
    IF \E i \in DOMAIN entities : entities[i].key = entity_key
    THEN entities[CHOOSE i \in DOMAIN entities : entities[i].key = entity_key]
    ELSE data_source

\* `entities` after the setdefault that returned data_source
entities_with(entities, data_source) ==
    IF \E i \in DOMAIN entities : entities[i] = data_source THEN entities
    ELSE Append(entities, data_source)

build_node(node, dataset, entities) ==
    IF node.mri = <<>> THEN Raised("InvalidQueryException", "No MRI found")
    ELSE IF node.table_alias = <<>>
    THEN Raised("InvalidQueryException", "No table alias found for MRI")
    ELSE LET entity_key == select_entity(node.mri, dataset)
         IN  IF entity_key.exc # NoException THEN entity_key
             ELSE Returned(IndividualNode(node.table_alias,
                    setdefault(entities, entity_key.value,
                               [QueryEntity(entity_key.value) EXCEPT !.id = node.table_alias])))

\* the key conditions of the join of `node` to the node before it
join_conditions(lhs_alias, prev_alias, node) ==
    [i \in DOMAIN node.groupby |->
        JoinCondition(
            JoinConditionExpression(lhs_alias, node.groupby[i].expression.column_name),
            JoinConditionExpression(prev_alias, node.groupby[i].expression.column_name))]

\* a join of every node to the first node instead of the node before it
RECURSIVE build_join_clause_to_first(_, _, _, _)
build_join_clause_to_first(prev_node, nodes, dataset, entities) ==
    IF nodes = <<>>
    THEN Raised("InvalidQueryException", "Invalid join clause in formula query")
    ELSE LET node == nodes[1]
             lhs == build_node(node, dataset, entities) IN
         IF lhs.exc # NoException THEN lhs
         ELSE LET conditions == join_conditions(lhs.value.alias, prev_node.alias, node)
                  left_side == IF Len(nodes) > 1
                               THEN build_join_clause_to_first(prev_node, Tail(nodes), dataset,
                                        entities_with(entities, lhs.value.data_source))
                               ELSE lhs
              IN  IF left_side.exc # NoException THEN left_side
                  ELSE Returned(JoinClause(left_side.value, lhs.value, conditions, "INNER"))

\* `entities` is the cache of build_node when build_join_clause is called
RECURSIVE build_join_clause(_, _, _, _)
build_join_clause(prev_node, nodes, dataset, entities) ==
    IF nodes = <<>>
    THEN Raised("InvalidQueryException", "Invalid join clause in formula query")
    ELSE LET node == nodes[1] IN
         IF node.table_alias = <<>>
         THEN Raised("InvalidQueryException", "Invalid table alias in formula query")
         ELSE LET lhs == build_node(node, dataset, entities) IN
              IF lhs.exc # NoException THEN lhs
              ELSE LET conditions == join_conditions(lhs.value.alias, prev_node.alias, node)
                       left_side == IF Len(nodes) > 1
                                    THEN build_join_clause(lhs.value, Tail(nodes), dataset,
                                            entities_with(entities, lhs.value.data_source))
                                    ELSE lhs
                   IN  IF left_side.exc # NoException THEN left_side
                       ELSE Returned(JoinClause(left_side.value, prev_node,
                                                conditions, "INNER"))

\* a comparison of the groupby lists as sets of columns
same_groupby_unordered(join_nodes) ==
    \A i \in DOMAIN join_nodes :
        {join_nodes[i].groupby[k] : k \in DOMAIN join_nodes[i].groupby}
            = {join_nodes[1].groupby[k] : k \in DOMAIN join_nodes[1].groupby}

\* all(node.groupby == groupbys for node in join_nodes), groupbys = join_nodes[0].groupby
same_groupby(join_nodes) ==
    \A i \in DOMAIN join_nodes : join_nodes[i].groupby = join_nodes[1].groupby

\* lines 785-823: the composite query over the join of the leaves to first_node
composite_query(join_clause, join_nodes) ==
    IF join_clause.exc # NoException THEN join_clause
    ELSE Returned(<<Query("CompositeQuery", join_clause.value, <<>>, <<>>, <<>>),
                    join_nodes>>)

join_query(first_node, join_nodes, dataset) ==
    IF first_node.exc # NoException THEN first_node
    ELSE composite_query(build_join_clause(first_node.value, Tail(join_nodes), dataset,
                                           <<first_node.value.data_source>>),
                         join_nodes)

\* lines 754-823: the query over the entities of the leaves
query_over(join_nodes, entity_keys, dataset) ==
    IF FirstException(entity_keys) # NoException
    THEN [exc |-> FirstException(entity_keys), value |-> NoneValue]
    ELSE IF Len(entity_keys) = 1
    THEN Returned(<<Query("LogicalQuery", QueryEntity(entity_keys[1].value),
                          <<>>, <<>>, <<>>),
                    join_nodes>>)
    ELSE join_query(build_node(join_nodes[1], dataset, <<>>), join_nodes, dataset)

\* lines 745-766: the checks on the leaves
build_query_of_leaves(join_nodes, dataset) ==
    IF join_nodes = <<>>
    THEN Raised("IndexError", "list index out of range")
    ELSE IF ~same_groupby(join_nodes)
    THEN Raised("InvalidQueryException",
                "All terms in a formula must have the same groupby")
    ELSE query_over(join_nodes,
                    [i \in DOMAIN join_nodes |-> select_entity(join_nodes[i].mri, dataset)],
                    dataset)

\* returns the pair <<query, nodes>>
build_formula_query_from_clause(parsed, dataset) ==
    IF ~IsInitialParseResult(parsed)
    THEN Raised("InvalidQueryException", "Could not parse formula")
    ELSE build_query_of_leaves(find_all_leaf_nodes(parsed), dataset)

----------------------------------------------------------------------------
(* convert_formula_to_query *)

\* a qualifier kept on single-source plans too
alias_wrap_always(alias, query) == alias

alias_wrap(alias, query) == IF query.type = "LogicalQuery" THEN <<>> ELSE alias

\* the exception extract_expression raises on param (NoException if it returns)
RECURSIVE extract_expression_exc(_)
extract_expression_exc(param) ==
    IF ~IsInitialParseResult(param) THEN NoException
    ELSE IF param.expression # NoneValue
    THEN IF param.expression.expression.parameters[1].type = "Column"
         THEN NoException
         ELSE Exception("AssertionError", "")
    ELSE IF param.formula # None
    THEN FirstException([i \in DOMAIN param.parameters |->
            [exc |-> extract_expression_exc(param.parameters[i])]])
    ELSE Exception("InvalidQueryException",
                   "Could not build selected expression for formula")

RECURSIVE extract_expression(_, _)
extract_expression(param, query) ==
    IF ~IsInitialParseResult(param) THEN Literal(None, param)
    ELSE IF param.expression # NoneValue
    THEN LET aggregate_function == param.expression.expression
             column == aggregate_function.parameters[1]
         IN  [aggregate_function EXCEPT
                !.parameters = <<[column EXCEPT
                                    !.table_name = alias_wrap(param.table_alias, query)]>>,
                !.alias = None]
    ELSE FunctionCall(None, param.formula,
            [i \in DOMAIN param.parameters |->
                extract_expression(param.parameters[i], query)])

\* the group-by columns of one leaf as they are on the leaf
aliased_groupbys_unqualified(leaf_node, query) == leaf_node.groupby

\* the group-by columns of one leaf, qualified by its alias
aliased_groupbys(leaf_node, query) ==
    [i \in DOMAIN leaf_node.groupby |->
        [leaf_node.groupby[i] EXCEPT
            !.expression.table_name = alias_wrap(leaf_node.table_alias, query)]]

\* the filters of one leaf whose left-hand side is a column, qualified by its alias
RECURSIVE qualified_conditions(_, _)
qualified_conditions(conditions, table_name) ==
    IF conditions = <<>> THEN <<>>
    ELSE LET c == Head(conditions)
             lhs == c.parameters[1]
         IN  (IF lhs.type = "Column"
              THEN <<[c EXCEPT !.parameters =
                        <<[lhs EXCEPT !.table_name = table_name]>> \o Tail(c.parameters)]>>
              ELSE <<>>)
             \o qualified_conditions(Tail(conditions), table_name)

\* a metric_id condition without the leaf's alias
metric_id_condition_unqualified(param, query) ==
    binary_condition("equals", Column(None, <<>>, "metric_id"),
                     Literal(None, StrOfChars(param.mri)))

metric_id_condition(param, query) ==
    binary_condition("equals",
                     Column(None, alias_wrap(param.table_alias, query), "metric_id"),
                     Literal(None, StrOfChars(param.mri)))

RECURSIVE extract_filters_exc(_)
extract_filters_exc(param) ==
    IF ~IsInitialParseResult(param) THEN NoException
    ELSE IF param.expression # NoneValue THEN NoException
    ELSE IF param.formula # None
    THEN FirstException([i \in DOMAIN param.parameters |->
            [exc |-> extract_filters_exc(param.parameters[i])]])
    ELSE Exception("InvalidQueryException",
                   "Could not extract valid filters for formula")

RECURSIVE extract_filters(_, _)
extract_filters(param, query) ==
    IF ~IsInitialParseResult(param) THEN <<>>
    ELSE IF param.expression # NoneValue
    THEN qualified_conditions(param.conditions, alias_wrap(param.table_alias, query))
            \o <<metric_id_condition(param, query)>>
    ELSE Concat([i \in DOMAIN param.parameters |->
                    extract_filters(param.parameters[i], query)])

\* lines 842-955, `built` being what build_formula_query_from_clause returned
convert_built_formula(parsed, built) ==
    IF built.exc # NoException THEN built
    ELSE LET query == built.value[1]
             nodes == built.value[2]
             expression_exc ==
                FirstException([i \in DOMAIN parsed.parameters |->
                    [exc |-> extract_expression_exc(parsed.parameters[i])]])
             filters_exc ==
                FirstException([i \in DOMAIN parsed.parameters |->
                    [exc |-> extract_filters_exc(parsed.parameters[i])]])
             formula_column ==
                SelectedExpression(AGGREGATE_ALIAS,
                    FunctionCall(AGGREGATE_ALIAS, parsed.formula,
                        [i \in DOMAIN parsed.parameters |->
                            extract_expression(parsed.parameters[i], query)]))
             hoisted == Concat([i \in DOMAIN nodes |-> aliased_groupbys(nodes[i], query)])
             groupby == [i \in DOMAIN hoisted |-> hoisted[i].expression]
             conditions == Concat([i \in DOMAIN parsed.parameters |->
                                    extract_filters(parsed.parameters[i], query)])
         IN  IF expression_exc # NoException
             THEN [exc |-> expression_exc, value |-> NoneValue]
             ELSE IF filters_exc # NoException
             THEN [exc |-> filters_exc, value |-> NoneValue]
             ELSE Returned([query EXCEPT
                              !.selected_columns = <<formula_column>> \o hoisted,
                              !.groupby = groupby,
                              !.condition = @ \o conditions])

convert_formula_to_query(parsed, dataset) ==
    IF parsed.formula = None
    THEN Raised("InvalidQueryException", "Parsed formula has no formula name specified")
    ELSE convert_built_formula(parsed, build_formula_query_from_clause(parsed, dataset))

----------------------------------------------------------------------------
(* convert_timeseries_to_query *)

\* the attached filters ahead of the metric_id equality
convert_timeseries_to_query_filters_first(parsed, dataset) ==
    IF parsed.expression = NoneValue
    THEN Raised("InvalidQueryException", "Parsed expression has no expression specified")
    ELSE IF parsed.mri = <<>>
    THEN Raised("ParsingException", "no MRI specified in MQL query")
    ELSE LET selected_columns == <<parsed.expression>> \o parsed.groupby
             groupby == [i \in DOMAIN parsed.groupby |-> parsed.groupby[i].expression]
             conditions ==
                parsed.conditions
                    \o <<binary_condition("equals", Column(None, <<>>, "metric_id"),
                                          Literal(None, StrOfChars(parsed.mri)))>>
             entity_key == select_entity(parsed.mri, dataset)
         IN  IF entity_key.exc # NoException THEN entity_key
             ELSE Returned(Query("LogicalQuery", QueryEntity(entity_key.value),
                                 selected_columns, conditions, groupby))

convert_timeseries_to_query(parsed, dataset) ==
    IF parsed.expression = NoneValue
    THEN Raised("InvalidQueryException", "Parsed expression has no expression specified")
    ELSE IF parsed.mri = <<>>
    THEN Raised("ParsingException", "no MRI specified in MQL query")
    ELSE LET selected_columns == <<parsed.expression>> \o parsed.groupby
             groupby == [i \in DOMAIN parsed.groupby |-> parsed.groupby[i].expression]
             conditions ==
                <<binary_condition("equals", Column(None, <<>>, "metric_id"),
                                   Literal(None, StrOfChars(parsed.mri)))>>
                    \o parsed.conditions
             entity_key == select_entity(parsed.mri, dataset)
         IN  IF entity_key.exc # NoException THEN entity_key
             ELSE Returned(Query("LogicalQuery", QueryEntity(entity_key.value),
                                 selected_columns, conditions, groupby))

----------------------------------------------------------------------------
(* parse_mql_query_body, after the visitor returned `parsed` *)

convert_parsed(parsed, dataset) ==
    IF ~IsInitialParseResult(parsed)
    THEN Raised("AttributeError", "'float' object has no attribute 'expression'")
    ELSE IF parsed.expression = NoneValue /\ parsed.formula = None
    THEN Raised("ParsingException",
                "No aggregate/expression or formula specified in MQL query")
    ELSE IF parsed.formula # None
    THEN convert_formula_to_query(parsed, dataset)
    ELSE convert_timeseries_to_query(parsed, dataset)

----------------------------------------------------------------------------
(* populate_rollup *)

Integer(n) == [type |-> "int", i |-> n]

\* granularity: an int; interval: an int or NoneValue; with_totals, orderby: a str or None
Rollup(granularity, interval, with_totals, orderby) ==
    [granularity |-> granularity, interval |-> interval,
     with_totals |-> with_totals, orderby |-> orderby]

Scope(org_ids, project_ids, use_case_id) ==
    [org_ids |-> org_ids, project_ids |-> project_ids, use_case_id |-> use_case_id]

\* limit, offset: an int or NoneValue; the start and end times are two times that
\* parse, the scope is one organisation and one project
MQLContext(rollup, limit, offset) ==
    [rollup |-> rollup, limit |-> limit, offset |-> offset,
     start |-> "2023-11-23T18:30:00", end |-> "2023-11-23T22:30:00",
     scope |-> Scope(<<1>>, <<11>>, "transactions")]

GRANULARITIES_AVAILABLE == <<10, 60, 3600, 86400>>

\* `if x` for an optional int
Truthy(x) == IF x = NoneValue THEN FALSE ELSE x.i # 0

OrderBy(direction, expression) == [direction |-> direction, expression |-> expression]

granularity_valid(rollup) ==
    \E k \in DOMAIN GRANULARITIES_AVAILABLE : GRANULARITIES_AVAILABLE[k] = rollup.granularity.i

interval_too_small(rollup) ==
    IF Truthy(rollup.interval)
    THEN \/ rollup.interval.i < GRANULARITIES_AVAILABLE[1]
         \/ rollup.interval.i < rollup.granularity.i
    ELSE FALSE

\* the interval tested by truth value, as line 1107 does
interval_with_orderby_truthy(rollup) == Truthy(rollup.interval) /\ rollup.orderby # None

interval_with_orderby(rollup) == rollup.interval # NoneValue /\ rollup.orderby # None

\* the exception populate_rollup raises (NoException if it returns)
populate_rollup_raises(mql_context_) ==
    LET rollup == mql_context_.rollup IN
    IF ~granularity_valid(rollup)
    THEN Exception("ParsingException", "granularity is not valid")
    ELSE IF rollup.with_totals # None /\ rollup.with_totals \notin {"True", "False"}
    THEN Exception("ParsingException",
                   "with_totals must be a string, either 'True' or 'False'")
    ELSE IF rollup.orderby # None /\ rollup.orderby \notin {"ASC", "DESC"}
    THEN Exception("ParsingException", "orderby must be either 'ASC' or 'DESC'")
    ELSE IF interval_with_orderby(rollup)
    THEN Exception("ParsingException",
                   "orderby is not supported when interval is specified")
    ELSE IF interval_too_small(rollup)
    THEN Exception("ParsingException",
                   "interval must be greater than or equal to granularity")
    ELSE NoException

time_expression(rollup) ==
    FunctionCall("time", "toStartOfInterval",
                 <<Column(None, <<>>, "timestamp"),
                   FunctionCall(None, "toIntervalSecond", <<Literal(None, rollup.interval)>>),
                   Literal(None, Str("Universal"))>>)

\* the time bucket ahead of the columns the query has, and the order left as it is
populate_rollup_bucket_first(query, mql_context_) ==
    LET rollup == mql_context_.rollup
        with_granularity ==
            [query EXCEPT !.condition = @ \o
                <<binary_condition("equals", Column(None, <<>>, "granularity"),
                                   Literal(None, rollup.granularity))>>]
    IN  IF ~granularity_valid(rollup) THEN query
        ELSE IF populate_rollup_raises(mql_context_) # NoException THEN with_granularity
        ELSE IF Truthy(rollup.interval)
        THEN [with_granularity EXCEPT
                !.selected_columns =
                    <<SelectedExpression("time", time_expression(rollup))>> \o @,
                !.groupby = <<time_expression(rollup)>> \o @,
                !.totals = IF rollup.with_totals = "True" THEN TRUE ELSE @]
        ELSE IF rollup.orderby # None
        THEN [with_granularity EXCEPT
                !.orderby = <<OrderBy(IF rollup.orderby = "ASC" THEN "ASC" ELSE "DESC",
                                      Column(None, <<>>, AGGREGATE_ALIAS))>>]
        ELSE with_granularity

\* the query as populate_rollup leaves it, whether it returns or raises: the
\* granularity condition is added before the other settings are validated
populate_rollup(query, mql_context_) ==
    LET rollup == mql_context_.rollup
        with_granularity ==
            [query EXCEPT !.condition = @ \o
                <<binary_condition("equals", Column(None, <<>>, "granularity"),
                                   Literal(None, rollup.granularity))>>]
    IN  IF ~granularity_valid(rollup) THEN query
        ELSE IF populate_rollup_raises(mql_context_) # NoException THEN with_granularity
        ELSE IF Truthy(rollup.interval)
        THEN [with_granularity EXCEPT
                !.selected_columns =
                    @ \o <<SelectedExpression("time", time_expression(rollup))>>,
                !.groupby = @ \o <<time_expression(rollup)>>,
                !.orderby = <<OrderBy("ASC", time_expression(rollup))>>,
                !.totals = IF rollup.with_totals = "True" THEN TRUE ELSE @]
        ELSE IF rollup.orderby # None
        THEN [with_granularity EXCEPT
                !.orderby = <<OrderBy(IF rollup.orderby = "ASC" THEN "ASC" ELSE "DESC",
                                      Column(None, <<>>, AGGREGATE_ALIAS))>>]
        ELSE with_granularity

----------------------------------------------------------------------------
(* populate_limit and populate_offset *)

MAX_LIMIT == 10000

\* the exception populate_limit raises (NoException if it returns)
populate_limit_raises(mql_context_) ==
    IF Truthy(mql_context_.limit)
    THEN IF mql_context_.limit.i > MAX_LIMIT
         THEN Exception("ParsingException", "queries cannot have a limit higher than 10000")
         ELSE NoException
    ELSE NoException

populate_limit(query, mql_context_) ==
    IF populate_limit_raises(mql_context_) # NoException THEN query
    ELSE [query EXCEPT !.limit = IF Truthy(mql_context_.limit) THEN mql_context_.limit
                                ELSE Integer(1000)]

populate_offset_raises(mql_context_) ==
    IF Truthy(mql_context_.offset)
    THEN IF mql_context_.offset.i < 0
         THEN Exception("ParsingException", "offset must be greater than or equal to 0")
         ELSE NoException
    ELSE NoException

populate_offset(query, mql_context_) ==
    IF populate_offset_raises(mql_context_) # NoException THEN query
    ELSE IF Truthy(mql_context_.offset)
    THEN [query EXCEPT !.offset = mql_context_.offset.i]
    ELSE query

----------------------------------------------------------------------------
(* populate_query_from_mql_context.  The functions of                      *)
(* snuba.query.mql.context_population give, for one table alias, the       *)
(* expressions that populate_start_end_time, populate_scope, populate_rollup *)
(* and populate_limit above add to the query of one entity.                 *)

RECURSIVE JoinChars(_)
JoinChars(chars) == IF chars = <<>> THEN "" ELSE chars[1] \o JoinChars(Tail(chars))

Datetime(s) == [type |-> "datetime", s |-> s]

start_end_time_condition(mql_context_, entity_key, table_alias) ==
    <<binary_condition("greaterOrEquals", Column(None, table_alias, "timestamp"),
                       Literal(None, Datetime(mql_context_.start))),
      binary_condition("less", Column(None, table_alias, "timestamp"),
                       Literal(None, Datetime(mql_context_.end)))>>

scope_conditions(mql_context_, table_alias) ==
    <<binary_condition("in", Column(None, table_alias, "project_id"),
        FunctionCall(None, "tuple",
            [i \in DOMAIN mql_context_.scope.project_ids |->
                Literal(None, Integer(mql_context_.scope.project_ids[i]))])),
      binary_condition("in", Column(None, table_alias, "org_id"),
        FunctionCall(None, "tuple",
            [i \in DOMAIN mql_context_.scope.org_ids |->
                Literal(None, Integer(mql_context_.scope.org_ids[i]))])),
      binary_condition("equals", Column(None, table_alias, "use_case_id"),
                       Literal(None, Str(mql_context_.scope.use_case_id)))>>

\* the time bucket of one table alias
aliased_time_expression(rollup, table_alias) ==
    FunctionCall(IF table_alias = <<>> THEN "time" ELSE JoinChars(table_alias) \o ".time",
                 "toStartOfInterval",
                 <<Column(None, table_alias, "timestamp"),
                   FunctionCall(None, "toIntervalSecond", <<Literal(None, rollup.interval)>>),
                   Literal(None, Str("Universal"))>>)

\* (granularity_condition, with_totals, orderby, selected_time), once the rollup is
\* validated as populate_rollup validates it
rollup_expressions(mql_context_, table_alias) ==
    LET rollup == mql_context_.rollup IN
    [granularity_condition |->
        binary_condition("equals", Column(None, table_alias, "granularity"),
                         Literal(None, rollup.granularity)),
     with_totals |-> rollup.with_totals = "True",
     orderby |->
        IF Truthy(rollup.interval)
        THEN <<OrderBy("ASC", aliased_time_expression(rollup, table_alias))>>
        ELSE IF rollup.orderby # None
        THEN <<OrderBy(IF rollup.orderby = "ASC" THEN "ASC" ELSE "DESC",
                       Column(None, <<>>, AGGREGATE_ALIAS))>>
        ELSE <<>>,
     selected_time |->
        IF Truthy(rollup.interval)
        THEN <<SelectedExpression("time", aliased_time_expression(rollup, table_alias))>>
        ELSE <<>>]

limit_value(mql_context_) ==
    IF Truthy(mql_context_.limit) THEN mql_context_.limit ELSE Integer(1000)

\* JoinClause.get_alias_node_map: the nodes of the left side, then those of the right
RECURSIVE get_alias_node_map(_)
get_alias_node_map(node) ==
    IF node.type = "JoinClause"
    THEN get_alias_node_map(node.left_node) \o get_alias_node_map(node.right_node)
    ELSE <<node>>

\* the list of (entity key, alias) pairs, lines 1180-1191
entity_data(query) ==
    IF query.type = "LogicalQuery" THEN << <<query.from_clause.key, <<>> >> >>
    ELSE LET nodes == get_alias_node_map(query.from_clause)
         IN  [i \in DOMAIN nodes |-> <<nodes[i].data_source.key, nodes[i].alias>>]

\* one turn of the loop of lines 1194-1217
populate_entity(query, mql_context_, entity_key, table_alias) ==
    LET expressions == rollup_expressions(mql_context_, table_alias) IN
    [query EXCEPT
        !.condition = @ \o start_end_time_condition(mql_context_, entity_key, table_alias)
                        \o scope_conditions(mql_context_, table_alias)
                        \o <<expressions.granularity_condition>>,
        !.totals = expressions.with_totals,
        !.orderby = IF expressions.orderby # <<>> THEN expressions.orderby ELSE @,
        !.selected_columns = @ \o expressions.selected_time,
        !.groupby = @ \o [i \in DOMAIN expressions.selected_time |->
                            expressions.selected_time[i].expression]]

RECURSIVE populate_entities(_, _, _)
populate_entities(query, mql_context_, data) ==
    IF data = <<>> THEN query
    ELSE populate_entities(populate_entity(query, mql_context_, data[1][1], data[1][2]),
                           mql_context_, Tail(data))

\* every alias, the base alias included
other_aliases_all(data, base_node_alias) == [i \in DOMAIN data |-> data[i][2]]

\* [d[1] for d in entity_data if d[1] != base_node_alias]
other_aliases(data, base_node_alias) ==
    LET aliases == [i \in DOMAIN data |-> data[i][2]]
        differs(alias) == alias # base_node_alias
    IN  SelectSeq(aliases, differs)

\* lines 1219-1241
time_join_keys(query, data) ==
    LET join_clause == query.from_clause
        base_node_alias == join_clause.right_node.alias
        others == other_aliases(data, base_node_alias)
        new_conditions ==
            [i \in DOMAIN others |->
                JoinCondition(JoinConditionExpression(base_node_alias, "time"),
                              JoinConditionExpression(others[i], "time"))]
    IN  [query EXCEPT !.from_clause = [join_clause EXCEPT !.keys = @ \o new_conditions]]

\* the exception populate_query_from_mql_context raises (NoException if it returns)
populate_query_from_mql_context_raises(mql_context_) ==
    IF populate_rollup_raises(mql_context_) # NoException
    THEN populate_rollup_raises(mql_context_)
    ELSE IF populate_limit_raises(mql_context_) # NoException
    THEN populate_limit_raises(mql_context_)
    ELSE populate_offset_raises(mql_context_)

\* returns the pair <<query, mql_context>>
populate_query_from_mql_context(query, mql_context_) ==
    IF populate_query_from_mql_context_raises(mql_context_) # NoException
    THEN [exc |-> populate_query_from_mql_context_raises(mql_context_), value |-> NoneValue]
    ELSE LET data == entity_data(query)
             populated == populate_entities(query, mql_context_, data)
             selected_time_found == Truthy(mql_context_.rollup.interval)
             joined == IF query.type = "CompositeQuery" /\ selected_time_found
                       THEN time_join_keys(populated, data)
                       ELSE populated
         IN  Returned(<<[joined EXCEPT
                            !.limit = limit_value(mql_context_),
                            !.offset = IF Truthy(mql_context_.offset)
                                       THEN mql_context_.offset.i ELSE @],
                        mql_context_>>)

----------------------------------------------------------------------------
(* quantiles_to_quantile *)

\* snuba.query.dsl.arrayElement
arrayElement(alias, array, index) == FunctionCall(alias, "arrayElement", <<array, index>>)

\* a rewrite of every quantiles call that has parameters
transform_any_length(exp) ==
    IF exp.type = "CurriedFunctionCall"
    THEN IF exp.internal_function.function_name \in {"quantiles", "quantilesIf"}
         THEN IF Len(exp.internal_function.parameters) >= 1
              THEN arrayElement(exp.alias, [exp EXCEPT !.alias = None],
                                Literal(None, Integer(1)))
              ELSE exp
         ELSE exp
    ELSE exp

transform(exp) ==
    IF exp.type = "CurriedFunctionCall"
    THEN IF exp.internal_function.function_name \in {"quantiles", "quantilesIf"}
         THEN IF Len(exp.internal_function.parameters) = 1
              THEN arrayElement(exp.alias, [exp EXCEPT !.alias = None],
                                Literal(None, Integer(1)))
              ELSE exp
         ELSE exp
    ELSE exp

\* Expression.transform(transform): the children first, then the expression itself
RECURSIVE Expression_transform(_)
Expression_transform(exp) ==
    IF exp.type = "FunctionCall"
    THEN transform([exp EXCEPT !.parameters =
            [i \in DOMAIN exp.parameters |-> Expression_transform(exp.parameters[i])]])
    ELSE IF exp.type = "CurriedFunctionCall"
    THEN transform([exp EXCEPT
            !.internal_function = Expression_transform(exp.internal_function),
            !.parameters =
                [i \in DOMAIN exp.parameters |-> Expression_transform(exp.parameters[i])]])
    ELSE transform(exp)

\* Query.transform_expressions(transform): the expressions of the selected columns, of
\* the condition, of the group-by and of the order-by
transform_expressions(query) ==
    [query EXCEPT
        !.selected_columns =
            [i \in DOMAIN @ |-> [@[i] EXCEPT !.expression = Expression_transform(@)]],
        !.condition = [i \in DOMAIN @ |-> Expression_transform(@[i])],
        !.groupby = [i \in DOMAIN @ |-> Expression_transform(@[i])],
        !.orderby = [i \in DOMAIN @ |-> [@[i] EXCEPT !.expression = Expression_transform(@)]]]

quantiles_to_quantile(query) == transform_expressions(query)

----------------------------------------------------------------------------
(* parse_mql_query_new and its two stages.  A step is named after the      *)
(* function it calls.  The collaborators (resolve_mappings, the generic    *)
(* post-processors, the optimizer, the custom processors, the time         *)
(* condition and the validators) work on the query in place: what they do   *)
(* to it is outside this model, each of them returns or raises.            *)

\* the generic post-processors of snuba.query.snql.parser, as one step
POST_PROCESSORS == <<"POST_PROCESSORS">>

MQL_POST_PROCESSORS == POST_PROCESSORS \o <<"quantiles_to_quantile">>

\* Optional[CustomProcessors]
NoCustomProcessing == [type |-> "NoneType"]
CustomProcessors(items) == [type |-> "list", items |-> items]

\* ParsePopulateResolveMQL._process_data
stage_a_steps ==
    <<"parse_mql_query_body", "populate_query_from_mql_context", "resolve_mappings">>

\* the custom processors after the validators
stage_b_steps_custom_last(custom_processing) ==
    MQL_POST_PROCESSORS
        \o <<"FilterInSelectOptimizer">>
        \o <<"_replace_time_condition", "VALIDATORS">>
        \o (IF custom_processing.type = "NoneType" THEN <<>> ELSE custom_processing.items)

\* PostProcessAndValidateMQLQuery._process_data
stage_b_steps(custom_processing) ==
    MQL_POST_PROCESSORS
        \o <<"FilterInSelectOptimizer">>
        \o (IF custom_processing.type = "NoneType" THEN <<>> ELSE custom_processing.items)
        \o <<"_replace_time_condition", "VALIDATORS">>

QueryPipelineResult(data, error) == [data |-> data, error |-> error]

\* a query settings object; id tells the objects apart
HTTPQuerySettings(id) == [type |-> "HTTPQuerySettings", id |-> id]

\* line 1291
dummy_settings == HTTPQuerySettings("dummy_settings")

\* lines 1311-1317: the data of the pipeline result stage B is executed on
stage_b_data(query, settings, custom_processing) ==
    [query |-> query, settings |-> dummy_settings, custom_processing |-> custom_processing]

\* the settings a step of a stage is called with (NoneValue: none are passed to it);
\* settings is the second entry of the stage's data in stage B
settings_given(step, settings) ==
    IF step \in {"parse_mql_query_body", "populate_query_from_mql_context",
                 "resolve_mappings"}
    THEN NoneValue
    ELSE IF step = "VALIDATORS" THEN NoneValue
    ELSE IF step = "FilterInSelectOptimizer"
    THEN IF settings = NoneValue THEN HTTPQuerySettings("default") ELSE settings
    ELSE settings

\* a stage whose error is dropped
raise_error_never(result) == FALSE

\* `if res.error: raise res.error`
raise_error(result) == result.error # NoException

\* lines 1300-1302 and 1323-1325: what the caller gets after a stage, or NoneValue when
\* parse_mql_query_new goes on
after_stage(result) ==
    IF raise_error(result) THEN [exc |-> result.error, value |-> NoneValue]
    ELSE IF result.data = NoneValue THEN Raised("AssertionError", "")
    ELSE NoneValue

----------------------------------------------------------------------------
(* The visitor as a machine.  parsimonious visits the parse tree bottom-up *)
(* and left to right: a handler runs when the results of its children are  *)
(* the last entries of `stack`, and replaces them by its own result.       *)
(*                                                                         *)
(* `rule` tells what the grammar still allows on an entry:                 *)
(*   "metric"        a bare identifier: inner filter, aggregate, or use    *)
(*                   as a target;                                          *)
(*   "inner_filter"  an identifier with its inner clause: aggregate only;  *)
(*   "function"      an aggregate or function call: its group_by, or use   *)
(*                   as a target;                                          *)
(*   "coefficient"   a complete operand.                                   *)
(* A handler called without its optional clause or operator, or with a     *)
(* single operand, returns its child unchanged (as visit_coefficient,      *)
(* visit_target and visit_nested_expression always do): such a call        *)
(* leaves the entry and its rule as they are.  A complete operand in       *)
(* parentheses is a target again, so filters, unary operators and          *)
(* functions apply to every complete operand.                              *)

RECURSIVE SumOver(_, _)
SumOver(f, S) ==
    IF S = {} THEN 0
    ELSE LET x == CHOOSE y \in S : TRUE IN f[x] + SumOver(f, S \ {x})

\* identifiers visited so far
NumVisited(count) == SumOver([c \in FirstChars |-> count[c] + 1], FirstChars)

Top == stack[Len(stack)]
TopRule == rule[Len(rule)]

Push(v, r) ==
    /\ stack' = Append(stack, v)
    /\ rule' = Append(rule, r)

ReplaceTop(v, r) ==
    /\ stack' = [stack EXCEPT ![Len(stack)] = v]
    /\ rule' = [rule EXCEPT ![Len(rule)] = r]

\* replace the last m entries by v
Reduce(m, v, r) ==
    /\ stack' = Append(SubSeq(stack, 1, Len(stack) - m), v)
    /\ rule' = Append(SubSeq(rule, 1, Len(rule) - m), r)

\* lines 676-699: whatever a handler raises leaves parse_mql_query_body as a
\* ParsingException; the visitor and its tree are dropped
RaiseInVisitor(message) ==
    /\ pc' = "done"
    /\ outcome' = Exception("ParsingException", message)
    /\ stack' = <<>>
    /\ rule' = <<>>
    /\ UNCHANGED <<pipeline_vars, trace_vars, visitor_vars, context_vars, function_vars, vocab, alias_count, extras, body_dataset, plan>>

Complete(r) == r \in {"metric", "function", "coefficient"}

\* an operand starts only where the grammar expects one: at the start, or after the
\* operator that follows a complete operand
OperandExpected == IF stack = <<>> THEN TRUE ELSE Complete(TopRule)

\* tokens consumed so far
Tokens == NumVisited(alias_count) + extras

Cost(clauses) == IF \A i \in DOMAIN clauses : clauses[i] = <<>> THEN 0 ELSE 1

\* no query text is being compiled
BodyIdle ==
    /\ vocab = Vocabulary({}, {}, {}, {}, {}, {}, {}, {}, {}, {})
    /\ stack = <<>>
    /\ rule = <<>>
    /\ alias_count = MQLVisitor_init
    /\ extras = 0
    /\ pc = "idle"
    /\ body_dataset = None
    /\ outcome = NoException
    /\ plan = NoQuery

\* no caller
VisitorsIdle == visitors = <<>>

\* no single function is called
FunctionsIdle ==
    /\ call = NoneValue
    /\ call_result = NoneValue

\* no call of parse_mql_query_new
PipelineIdle ==
    /\ pipeline_input = NoneValue
    /\ pipeline_pc = "idle"
    /\ pipeline_steps = <<>>
    /\ pipeline_calls = <<>>
    /\ res = NoneValue
    /\ pipeline_outcome = NoneValue
    /\ settings_passed = <<>>

\* no call of run_query_and_get_trace
TraceIdle ==
    /\ trace_query = ""
    /\ trace_pc = "idle"
    /\ connections = 0
    /\ executed = <<>>
    /\ trace_outcome = NoException

\* no query is being populated
ContextIdle ==
    /\ mql_context = NoneValue
    /\ context_query = NoQuery
    /\ context_outcome = NoException
    /\ context_pc = "idle"
    /\ context_call = None

Init ==
    /\ VisitorsIdle
    /\ ContextIdle
    /\ FunctionsIdle
    /\ PipelineIdle
    /\ TraceIdle
    /\ vocab \in Vocabularies
    /\ stack = <<>>
    /\ rule = <<>>
    /\ alias_count = MQLVisitor_init
    /\ extras = 0
    /\ pc = "visit"
    /\ body_dataset = None
    /\ outcome = NoException
    /\ plan = NoQuery

\* visit_quoted_mri / visit_unquoted_mri
VisitMri ==
    /\ pc = "visit"
    /\ OperandExpected
    /\ Tokens < MaxTokens
    /\ \E mri \in vocab.mris :
        /\ Push(visit_unquoted_mri(alias_count, mri), "metric")
        /\ alias_count' = generate_table_alias_count(alias_count, mri)
    /\ UNCHANGED <<pipeline_vars, trace_vars, visitor_vars, context_vars, function_vars, vocab, extras, pc, body_dataset, outcome, plan>>

\* visit_quoted_public_name / visit_unquoted_public_name
VisitPublicName ==
    /\ pc = "visit"
    /\ OperandExpected
    /\ Tokens < MaxTokens
    /\ RaiseInVisitor("MQL endpoint only supports MRIs")

VisitVariable ==
    /\ pc = "visit"
    /\ OperandExpected
    /\ Tokens < MaxTokens
    /\ RaiseInVisitor("Variables are not supported yet")

VisitNumber ==
    /\ pc = "visit"
    /\ OperandExpected
    /\ Tokens < MaxTokens
    /\ \E n \in vocab.numbers : Push(Float(n), "coefficient")
    /\ extras' = extras + 1
    /\ UNCHANGED <<pipeline_vars, trace_vars, visitor_vars, context_vars, function_vars, vocab, alias_count, pc, body_dataset, outcome, plan>>

VisitInnerFilter ==
    /\ pc = "visit"
    /\ stack # <<>> /\ TopRule = "metric"
    /\ \E clause \in vocab.clauses \cup {NoClause} :
        /\ Tokens + Cost(clause) <= MaxTokens
        /\ extras' = extras + Cost(clause)
        /\ ReplaceTop(visit_inner_filter(Top, clause[1], clause[2]),
                      IF Cost(clause) = 0 THEN TopRule ELSE "inner_filter")
    /\ UNCHANGED <<pipeline_vars, trace_vars, visitor_vars, context_vars, function_vars, vocab, alias_count, pc, body_dataset, outcome, plan>>

VisitAggregate ==
    /\ pc = "visit"
    /\ stack # <<>> /\ TopRule \in {"metric", "inner_filter"}
    /\ \E aggregate_name \in vocab.aggregates :
        ReplaceTop(visit_aggregate(aggregate_name, Top), "function")
    /\ UNCHANGED <<pipeline_vars, trace_vars, visitor_vars, context_vars, function_vars, vocab, alias_count, extras, pc, body_dataset, outcome, plan>>

VisitCurriedAggregate ==
    /\ pc = "visit"
    /\ stack # <<>> /\ TopRule \in {"metric", "inner_filter"}
    /\ \E aggregate_name \in vocab.curried, params \in CurriedAggregateParams :
        ReplaceTop(visit_curried_aggregate(aggregate_name, params, Top), "function")
    /\ UNCHANGED <<pipeline_vars, trace_vars, visitor_vars, context_vars, function_vars, vocab, alias_count, extras, pc, body_dataset, outcome, plan>>

VisitArbitraryFunction ==
    /\ pc = "visit"
    /\ stack # <<>> /\ Complete(TopRule)
    /\ Tokens < MaxTokens
    /\ \/ /\ visit_arbitrary_function_raises(Top)
          /\ RaiseInVisitor("")
       \/ /\ ~visit_arbitrary_function_raises(Top)
          /\ \E name \in vocab.functions, params \in FunctionParams :
                ReplaceTop(visit_arbitrary_function(name, Top, params), "function")
          /\ extras' = extras + 1
          /\ UNCHANGED <<pipeline_vars, trace_vars, visitor_vars, context_vars, function_vars, vocab, alias_count, pc, body_dataset, outcome, plan>>

VisitCurriedArbitraryFunction ==
    /\ pc = "visit"
    /\ stack # <<>> /\ Complete(TopRule)
    /\ Tokens < MaxTokens
    /\ \/ /\ visit_curried_arbitrary_function_raises(Top)
          /\ RaiseInVisitor("")
       \/ /\ ~visit_curried_arbitrary_function_raises(Top)
          /\ \E name \in vocab.curried_functions, aggregate_params \in FunctionParams :
                ReplaceTop(visit_curried_arbitrary_function(name, aggregate_params, Top, <<>>),
                           "function")
          /\ extras' = extras + 1
          /\ UNCHANGED <<pipeline_vars, trace_vars, visitor_vars, context_vars, function_vars, vocab, alias_count, pc, body_dataset, outcome, plan>>

\* function = (aggregate / curried_aggregate / ...) group_by?
VisitFunction ==
    /\ pc = "visit"
    /\ stack # <<>> /\ TopRule = "function"
    /\ \E packed_groupbys \in {c[2] : c \in {d \in vocab.clauses : d[1] = <<>>}} \cup {<<>>} :
        /\ Tokens + Cost(<<packed_groupbys>>) <= MaxTokens
        /\ extras' = extras + Cost(<<packed_groupbys>>)
        /\ ReplaceTop(visit_function(Top, packed_groupbys),
                      IF packed_groupbys = <<>> THEN TopRule ELSE "coefficient")
    /\ UNCHANGED <<pipeline_vars, trace_vars, visitor_vars, context_vars, function_vars, vocab, alias_count, pc, body_dataset, outcome, plan>>

\* filter = target ({ filter_expr })? group_by?, the target being a function, a bare
\* metric or a parenthesised expression
VisitFilter ==
    /\ pc = "visit"
    /\ stack # <<>> /\ Complete(TopRule)
    /\ \E clause \in vocab.clauses \cup {NoClause} :
        /\ Tokens + Cost(clause) <= MaxTokens
        /\ \/ /\ visit_filter_raises(Top, clause[1], clause[2])
              /\ RaiseInVisitor("Could not parse formula")
           \/ /\ ~visit_filter_raises(Top, clause[1], clause[2])
              /\ ReplaceTop(visit_filter(Top, clause[1], clause[2]),
                            IF Cost(clause) = 0 THEN TopRule ELSE "coefficient")
              /\ extras' = extras + Cost(clause)
              /\ UNCHANGED <<pipeline_vars, trace_vars, visitor_vars, context_vars, function_vars, vocab, alias_count, pc, body_dataset, outcome, plan>>

\* unary = unary_op? coefficient
VisitUnary ==
    /\ pc = "visit"
    /\ stack # <<>> /\ Complete(TopRule)
    /\ \E unary_op \in Opt({UNARY_OPERATORS[o] : o \in vocab.unary}) :
        /\ Tokens + Cost(<<unary_op>>) <= MaxTokens
        /\ \/ /\ visit_unary_raises(unary_op, Top)
              /\ RaiseInVisitor("Unary expression not supported for type")
           \/ /\ ~visit_unary_raises(unary_op, Top)
              /\ ReplaceTop(visit_unary(unary_op, Top),
                            IF unary_op = <<>> THEN TopRule ELSE "coefficient")
              /\ extras' = extras + Cost(<<unary_op>>)
              /\ UNCHANGED <<pipeline_vars, trace_vars, visitor_vars, context_vars, function_vars, vocab, alias_count, pc, body_dataset, outcome, plan>>

\* the last m entries are the operands of one chain; each but the first comes with
\* its operator
Others(m, ops) ==
    [i \in 1..(m - 1) |-> <<ops[i], stack[Len(stack) - m + 1 + i]>>]

OperandsReady(m) == \A i \in 1..m : Complete(rule[Len(rule) - m + i])

\* term = unary (term_op unary)*
VisitTerm ==
    /\ pc = "visit"
    /\ \E m \in 1..Len(stack) :
        /\ OperandsReady(m)
        /\ \E ops \in [1..(m - 1) -> {ARITHMETIC_OPERATORS_MAPPING[o] : o \in vocab.term_ops}] :
            Reduce(m, visit_term(stack[Len(stack) - m + 1], Others(m, ops)),
                   IF m = 1 THEN TopRule ELSE "coefficient")
    /\ UNCHANGED <<pipeline_vars, trace_vars, visitor_vars, context_vars, function_vars, vocab, alias_count, extras, pc, body_dataset, outcome, plan>>

\* expression = term (expr_op term)*
VisitExpression ==
    /\ pc = "visit"
    /\ \E m \in 1..Len(stack) :
        /\ OperandsReady(m)
        /\ \E ops \in [1..(m - 1) -> {ARITHMETIC_OPERATORS_MAPPING[o] : o \in vocab.expr_ops}] :
            Reduce(m, visit_expression(stack[Len(stack) - m + 1], Others(m, ops)),
                   IF m = 1 THEN TopRule ELSE "coefficient")
    /\ UNCHANGED <<pipeline_vars, trace_vars, visitor_vars, context_vars, function_vars, vocab, alias_count, extras, pc, body_dataset, outcome, plan>>

\* parse_mql_query_body once the visitor has returned the root's result
ParseMqlQueryBody ==
    /\ pc = "visit"
    /\ Len(stack) = 1 /\ Complete(rule[1])
    /\ \E dataset \in Datasets :
        \E result \in {convert_parsed(stack[1], dataset)} :
        /\ body_dataset' = dataset
        /\ outcome' = result.exc
        /\ plan' = IF result.exc = NoException THEN result.value ELSE NoQuery
    /\ pc' = "done"
    /\ UNCHANGED <<pipeline_vars, trace_vars, visitor_vars, context_vars, function_vars, vocab, stack, rule, alias_count, extras>>

Next ==
    \/ VisitMri
    \/ VisitPublicName
    \/ VisitVariable
    \/ VisitNumber
    \/ VisitInnerFilter
    \/ VisitAggregate
    \/ VisitCurriedAggregate
    \/ VisitArbitraryFunction
    \/ VisitCurriedArbitraryFunction
    \/ VisitFunction
    \/ VisitFilter
    \/ VisitUnary
    \/ VisitTerm
    \/ VisitExpression
    \/ ParseMqlQueryBody

Spec == Init /\ [][Next]_vars

----------------------------------------------------------------------------
(* Two callers of parse_mql_query_body side by side.  Each call makes its  *)
(* own MQLVisitor (line 677) and visits the identifiers of its text from   *)
(* left to right; the steps of the two callers interleave.  Only the       *)
(* identifiers of a text matter to the aliases, so a text is given here as *)
(* the sequence of its identifiers.                                        *)

Callers == {1, 2}

Texts == UNION {[1..n -> MRIs] : n \in 1..MaxIdentifiers}

Visitor(calls, state, text, count, table_aliases) ==
    [calls |-> calls, state |-> state, text |-> text, alias_count |-> count,
     table_aliases |-> table_aliases]

InitVisitors ==
    /\ visitors = [p \in Callers |-> Visitor(0, "idle", <<>>, EmptyAliasCount, <<>>)]
    /\ BodyIdle
    /\ ContextIdle
    /\ FunctionsIdle
    /\ PipelineIdle
    /\ TraceIdle

\* parse_mql_query_body: MQLVisitor()
NewVisitor(p) ==
    /\ visitors[p].state \in {"idle", "returned"}
    /\ visitors[p].calls < MaxCalls
    /\ \E text \in Texts :
        visitors' = [visitors EXCEPT ![p] =
            Visitor(@.calls + 1, "visit", text, MQLVisitor_init, <<>>)]
    /\ UNCHANGED <<pipeline_vars, trace_vars, body_vars, context_vars, function_vars>>

\* visit_quoted_mri / visit_unquoted_mri on the next identifier of the text
VisitIdentifier(p) ==
    /\ visitors[p].state = "visit"
    /\ Len(visitors[p].table_aliases) < Len(visitors[p].text)
    /\ LET v == visitors[p]
           mri == v.text[Len(v.table_aliases) + 1]
       IN  visitors' = [visitors EXCEPT ![p] =
                Visitor(v.calls, v.state, v.text,
                        generate_table_alias_count(v.alias_count, mri),
                        Append(v.table_aliases,
                               visit_unquoted_mri(v.alias_count, mri).table_alias))]
    /\ UNCHANGED <<pipeline_vars, trace_vars, body_vars, context_vars, function_vars>>

\* .visit(exp_tree) returns
VisitorReturns(p) ==
    /\ visitors[p].state = "visit"
    /\ Len(visitors[p].table_aliases) = Len(visitors[p].text)
    /\ visitors' = [visitors EXCEPT ![p].state = "returned"]
    /\ UNCHANGED <<pipeline_vars, trace_vars, body_vars, context_vars, function_vars>>

NextVisitors ==
    \E p \in Callers :
        \/ NewVisitor(p)
        \/ VisitIdentifier(p)
        \/ VisitorReturns(p)

SpecVisitors == InitVisitors /\ [][NextVisitors]_vars

----------------------------------------------------------------------------
(* populate_rollup on the query of one metric, for every rollup setting *)

Granularities == {5, 10, 60}
Intervals == {NoneValue} \cup {Integer(n) : n \in {-60, 0, 5, 30, 60}}
WithTotals == {None, "True", "False", "true"}
OrderBys == {None, "ASC", "DESC", "asc"}

Rollups ==
    {Rollup(Integer(g), i, t, o) :
        g \in Granularities, i \in Intervals, t \in WithTotals, o \in OrderBys}

\* sum(d:a)  and  sum(d:a) by x
TimeseriesQueries ==
    {convert_timeseries_to_query(
        visit_function(visit_aggregate("sum", visit_unquoted_mri(EmptyAliasCount,
                                                                  <<"d", ":", "a">>)), g),
        "generic_metrics").value : g \in {<<>>, visit_group_by(<<"x">>)}}

InitRollup ==
    /\ VisitorsIdle
    /\ BodyIdle
    /\ FunctionsIdle
    /\ PipelineIdle
    /\ TraceIdle
    /\ mql_context \in {MQLContext(r, NoneValue, NoneValue) : r \in Rollups}
    /\ context_query \in TimeseriesQueries
    /\ context_outcome = NoException
    /\ context_pc = "populate"
    /\ context_call = "populate_rollup"

PopulateRollup ==
    /\ context_pc = "populate"
    /\ context_call = "populate_rollup"
    /\ context_outcome' = populate_rollup_raises(mql_context)
    /\ context_query' = populate_rollup(context_query, mql_context)
    /\ context_pc' = "done"
    /\ UNCHANGED <<pipeline_vars, trace_vars, body_vars, visitor_vars, function_vars, mql_context, context_call>>

NextRollup == PopulateRollup

SpecRollup == InitRollup /\ [][NextRollup]_vars

----------------------------------------------------------------------------
(* populate_limit and populate_offset on the query of one metric, for every *)
(* paging setting                                                           *)

Limits == {NoneValue} \cup {Integer(n) : n \in {-1, 0, 1, 1000, 10000, 10001}}
Offsets == {NoneValue} \cup {Integer(n) : n \in {-1, 0, 5}}

InitLimit ==
    /\ VisitorsIdle
    /\ BodyIdle
    /\ FunctionsIdle
    /\ PipelineIdle
    /\ TraceIdle
    /\ mql_context \in {MQLContext(Rollup(Integer(60), NoneValue, None, None), l, o) :
                            l \in Limits, o \in Offsets}
    /\ context_query \in TimeseriesQueries
    /\ context_outcome = NoException
    /\ context_pc = "populate"
    /\ context_call \in {"populate_limit", "populate_offset"}

PopulateLimit ==
    /\ context_pc = "populate"
    /\ context_call = "populate_limit"
    /\ context_outcome' = populate_limit_raises(mql_context)
    /\ context_query' = populate_limit(context_query, mql_context)
    /\ context_pc' = "done"
    /\ UNCHANGED <<pipeline_vars, trace_vars, body_vars, visitor_vars, function_vars, mql_context, context_call>>

PopulateOffset ==
    /\ context_pc = "populate"
    /\ context_call = "populate_offset"
    /\ context_outcome' = populate_offset_raises(mql_context)
    /\ context_query' = populate_offset(context_query, mql_context)
    /\ context_pc' = "done"
    /\ UNCHANGED <<pipeline_vars, trace_vars, body_vars, visitor_vars, function_vars, mql_context, context_call>>

NextLimit ==
    \/ PopulateLimit
    \/ PopulateOffset

SpecLimit == InitLimit /\ [][NextLimit]_vars

----------------------------------------------------------------------------
(* Python strings: a text is a string, a character a string of length one  *)

\* s[a:b] for 0 <= a <= b
Slice(s, a, b) ==
    IF a >= Len(s) THEN "" ELSE SubSeq(s, a + 1, IF b < Len(s) THEN b ELSE Len(s))

\* sub in s
Contains(s, sub) ==
    \E i \in 0..(Len(s) - Len(sub)) : Slice(s, i, i + Len(sub)) = sub

\* s.startswith(sub)
StartsWith(s, sub) == Slice(s, 0, Len(sub)) = sub

\* the places (from 1) of the character c among the first n characters of s
Places(s, c, n) == {i \in 1..n : SubSeq(s, i, i) = c}

\* s.split(sep) for a separator of one character
RECURSIVE split(_, _)
split(s, sep) ==
    IF Places(s, sep, Len(s)) = {} THEN <<s>>
    ELSE LET i == CHOOSE i \in Places(s, sep, Len(s)) :
                        \A j \in Places(s, sep, Len(s)) : i <= j
         IN  <<Slice(s, 0, i - 1)>> \o split(Slice(s, i, Len(s)), sep)

Whitespace == {" ", "\t", "\n", "\r"}

\* s.split(): the words of s between runs of whitespace; `word` is the word being read
RECURSIVE split_whitespace(_, _)
split_whitespace(s, word) ==
    IF s = "" THEN (IF word = "" THEN <<>> ELSE <<word>>)
    ELSE IF Slice(s, 0, 1) \in Whitespace
    THEN (IF word = "" THEN <<>> ELSE <<word>>) \o split_whitespace(Slice(s, 1, Len(s)), "")
    ELSE split_whitespace(Slice(s, 1, Len(s)), word \o Slice(s, 0, 1))

\* sep.join(words)
RECURSIVE join(_, _)
join(sep, words) ==
    IF words = <<>> THEN ""
    ELSE IF Len(words) = 1 THEN words[1]
    ELSE words[1] \o sep \o join(sep, Tail(words))

UpperCase == "ABCDEFGHIJKLMNOPQRSTUVWXYZ"
LowerCase == "abcdefghijklmnopqrstuvwxyz"

\* s.lower()
RECURSIVE lower(_)
lower(s) ==
    IF s = "" THEN ""
    ELSE LET c == Slice(s, 0, 1)
             at == Places(UpperCase, c, Len(UpperCase))
         IN  (IF at = {} THEN c ELSE LET i == CHOOSE i \in at : TRUE
                                     IN  SubSeq(LowerCase, i, i))
                \o lower(Slice(s, 1, Len(s)))

\* s.strip()
RECURSIVE strip(_)
strip(s) ==
    IF s = "" THEN ""
    ELSE IF Slice(s, 0, 1) \in Whitespace THEN strip(Slice(s, 1, Len(s)))
    ELSE IF Slice(s, Len(s) - 1, Len(s)) \in Whitespace THEN strip(Slice(s, 0, Len(s) - 1))
    ELSE s

----------------------------------------------------------------------------
(* snuba.admin.clickhouse.tracing *)

\* the semicolon is let through
disallowed_keywords_insert_only == <<"insert">>

disallowed_keywords == <<"insert", ";">>

\* the exception validate_trace_query raises for a query (NoException if it returns)
validate_trace_query(sql_query) ==
    LET lowered == strip(lower(join(" ", split_whitespace(sql_query, ""))))
        found == {i \in DOMAIN disallowed_keywords : Contains(lowered, disallowed_keywords[i])}
    IN  IF ~StartsWith(lowered, "select")
        THEN Exception("InvalidCustomQuery", "Only SELECT queries are allowed")
        ELSE IF found # {}
        THEN LET first == CHOOSE i \in found : \A j \in found : i <= j
             IN  Exception("InvalidCustomQuery",
                           disallowed_keywords[first] \o " is not allowed in the query")
        ELSE NoException

----------------------------------------------------------------------------
(* parse_mql_query_body when the grammar stops before the end of the body:  *)
(* an IncompleteParseError of parsimonious at the place `pos` (from 0)     *)

\* ParseError.line: text.count("\n", 0, pos) + 1
ParseError_line(text, pos) == Cardinality(Places(text, "\n", pos)) + 1

\* ParseError.column: pos - text.rindex("\n", 0, pos), or pos + 1 on the first line
ParseError_column(text, pos) ==
    IF Places(text, "\n", pos) = {} THEN pos + 1
    ELSE LET last == CHOOSE i \in Places(text, "\n", pos) :
                        \A j \in Places(text, "\n", pos) : j <= i
         IN  pos - (last - 1)

incomplete_parse_error(body, pos) ==
    LET lines == split(body, "\n")
        e_line == ParseError_line(body, pos)
        line == IF e_line > Len(lines) THEN body ELSE lines[e_line]
        idx == ParseError_column(body, pos)
        prefix == Slice(line, IF idx - 3 > 0 THEN idx - 3 ELSE 0, idx)
        suffix == Slice(line, idx, idx + 10)
    IN  Raised("ParsingException",
               "Parsing error on line " \o JoinChars(DecimalString(e_line))
                    \o " at '" \o prefix \o suffix \o "'")

----------------------------------------------------------------------------
(* Single functions of the module, each applied to every input of a bounded *)
(* set                                                                      *)

Call(function, args) == [function |-> function, args |-> args]

\* the leaf of <aggregate>(d:a) or <aggregate>(<params>)(d:a), `count` being the
\* visitor's alias_count when it reaches the identifier
Leaf(aggregate, count) ==
    IF ~aggregate.curried
    THEN visit_aggregate(aggregate.name, visit_unquoted_mri(count, <<"d", ":", "a">>))
    ELSE visit_curried_aggregate(aggregate.name, aggregate.params,
                                 visit_unquoted_mri(count, <<"d", ":", "a">>))

\* sum, and quantiles(), quantiles(0.5), quantiles(0.5, 0.9) under three names
Aggregates ==
    {[name |-> "sum", curried |-> FALSE, params |-> <<>>]}
        \cup {[name |-> n, curried |-> TRUE, params |-> ps] :
                n \in {"quantiles", "quantilesIf", "uniqCombined"},
                ps \in {<<>>, <<Float(5)>>, <<Float(5), Float(9)>>}}

AfterOne == generate_table_alias_count(EmptyAliasCount, <<"d", ":", "a">>)

\* <leaf>,  <leaf> by x,  <leaf> / 2,  <leaf> / sum(g:b)  and  2 / (<leaf> + <leaf>)
ParsedOver(aggregate) ==
    LET leaf == Leaf(aggregate, EmptyAliasCount) IN
    { leaf,
      visit_function(leaf, visit_group_by(<<"x">>)),
      visit_term(leaf, << <<"divide", Float(2)>> >>),
      visit_term(leaf,
        << <<"divide", visit_aggregate("sum", visit_unquoted_mri(AfterOne, <<"g", ":", "b">>))>> >>),
      visit_term(Float(2),
        << <<"divide", visit_expression(leaf, << <<"plus", Leaf(aggregate, AfterOne)>> >>)>> >>) }

CompiledQueries ==
    {convert_parsed(parsed, "generic_metrics").value :
        parsed \in UNION {ParsedOver(a) : a \in Aggregates}}

QuantilesToQuantileCalls ==
    {Call("quantiles_to_quantile", [query |-> q]) :
        q \in CompiledQueries}

\* sum(<mri>) by <groupby>
SumOf(mri, count, groupby) ==
    visit_function(visit_aggregate("sum", visit_unquoted_mri(count, mri)), groupby)

AfterTwo == generate_table_alias_count(AfterOne, <<"g", ":", "b">>)

\* sum(d:a),  sum(d:a) + sum(g:b)  and  (sum(d:a) + sum(g:b)) + sum(d:a), each without a
\* group-by and with `by x` on every term
PlansToPopulate ==
    {convert_parsed(parsed, "generic_metrics").value :
        parsed \in UNION {
            { SumOf(<<"d", ":", "a">>, EmptyAliasCount, g),
              visit_expression(SumOf(<<"d", ":", "a">>, EmptyAliasCount, g),
                               << <<"plus", SumOf(<<"g", ":", "b">>, AfterOne, g)>> >>),
              visit_expression(
                visit_expression(SumOf(<<"d", ":", "a">>, EmptyAliasCount, g),
                                 << <<"plus", SumOf(<<"g", ":", "b">>, AfterOne, g)>> >>),
                << <<"plus", SumOf(<<"d", ":", "a">>, AfterTwo, g)>> >>) } :
            g \in {<<>>, visit_group_by(<<"x">>)}}}

ContextsToPopulate ==
    {MQLContext(Rollup(Integer(g), i, t, o), l, NoneValue) :
        g \in {5, 60}, i \in {NoneValue, Integer(0), Integer(30), Integer(60)},
        t \in {None, "True"}, o \in {None, "DESC"}, l \in {NoneValue, Integer(10001)}}

PopulateQueryFromMqlContextCalls ==
    {Call("populate_query_from_mql_context", [query |-> q, mql_context_dict |-> c]) :
        q \in PlansToPopulate, c \in ContextsToPopulate}

\* identifiers of every metric type and of other first characters, and the empty string
SelectEntityCalls ==
    {Call("select_entity", [mri |-> m, dataset |-> d]) :
        m \in {<<c, ":", "a">> : c \in {"c", "d", "s", "g", "e", "t", "C", "1"}} \cup {<<>>},
        d \in Datasets \cup {"events"}}

\* leaves with and without an expression, a metric identifier, group-by columns and
\* attached filters (one, or a second one pushed down after the first)
TimeseriesLeaves ==
    {InitialParseResult(e, None, <<>>, g, c, m,
                        IF m = <<>> THEN <<>> ELSE generate_table_alias(EmptyAliasCount, m)) :
        e \in {NoneValue} \cup {Leaf(a, EmptyAliasCount).expression :
                    a \in {[name |-> "sum", curried |-> FALSE, params |-> <<>>],
                           [name |-> "quantiles", curried |-> TRUE, params |-> <<Float(5)>>]}},
        g \in {<<>>} \cup {visit_group_by(n) : n \in {<<"x">>, <<"x", "y">>}},
        c \in {<<>>} \cup {<<f>> : f \in FilterExprs}
                \cup {<<visit_filter_factor(<<>>, "a", Str("1")),
                        visit_filter_factor(<<"!">>, "b", Str("2"))>>},
        m \in MRIs \cup {<<>>}}

ConvertTimeseriesToQueryCalls ==
    {Call("convert_timeseries_to_query", [parsed |-> l, dataset |-> d]) :
        l \in TimeseriesLeaves, d \in Datasets}

\* bodies the grammar consumes a part of, on one line and on several, with the place
\* where it stops (before or after the blanks that follow the part it consumed)
IncompleteParseErrors ==
    { <<"sum(d:a)}", 8>>,
      <<"sum(d:a){x:1} by y z", 18>>, <<"sum(d:a){x:1} by y z", 19>>,
      <<"sum(d:a)\n}", 8>>, <<"sum(d:a)\n}", 9>>,
      <<"sum(d:a) +\nsum(d:b) by (x, y)) by z", 29>>,
      <<"1 +\n\n  sum(d:a) by transaction ] and the rest of the text", 30>>,
      <<"1 +\n\n  sum(d:a) by transaction ] and the rest of the text", 31>>,
      <<"sum(d:a) by x\n\n\n\n\n\n\n\n\n\n\n]", 13>>,
      <<"sum(d:a) by x\n\n\n\n\n\n\n\n\n\n\n]", 24>> }

IncompleteParseCalls ==
    {Call("parse_mql_query_body", [body |-> e[1], pos |-> e[2]]) :
        e \in IncompleteParseErrors}

\* operands of a formula: sum(d:a), sum(g:b){a:"1"} by x, the number 2 and the bare g:b
FormulaOperands ==
    { SumOf(<<"d", ":", "a">>, EmptyAliasCount, <<>>),
      visit_filter(SumOf(<<"g", ":", "b">>, AfterOne, <<>>),
                   <<visit_filter_factor(<<>>, "a", Str("1"))>>, visit_group_by(<<"x">>)),
      Float(2),
      visit_unquoted_mri(AfterOne, <<"g", ":", "b">>) }

\* formulas of one operator, of two and of three
FormulasOfOne ==
    {visit_expression(a, << <<"plus", b>> >>) :
        a \in {o \in FormulaOperands : IsInitialParseResult(o)}, b \in FormulaOperands}

FormulasOfTwo ==
    {visit_term(f, << <<"multiply", c>> >>) :
        f \in FormulasOfOne,
        c \in {Float(2), SumOf(<<"d", ":", "a">>, AfterTwo, <<>>)}}

FormulasOfThree ==
    {visit_expression(SumOf(<<"d", ":", "a">>, EmptyAliasCount, <<>>), << <<"minus", f>> >>) :
        f \in {g \in FormulasOfTwo : g.parameters[2] = Float(2)}}

VisitFilterCalls ==
    {Call("visit_filter", [target |-> t, new_condition |-> c, groupby |-> g]) :
        t \in FormulasOfOne \cup FormulasOfTwo \cup FormulasOfThree,
        c \in {<<>>, <<visit_filter_factor(<<"!">>, "b", Str("2"))>>},
        g \in {<<>>, visit_group_by(<<"y">>), visit_group_by(<<"x", "y">>)}}

\* a unary operator or none, before a number, a leaf, a bare metric, a formula or
\* a value that is neither a number nor a node
VisitUnaryCalls ==
    {Call("visit_unary", [unary_op |-> u, coefficient |-> c]) :
        u \in {<<>>, <<UNARY_OPERATORS["-"]>>},
        c \in {Float(0), Float(2), Float(-5), Str("x")}
                \cup FormulaOperands \cup FormulasOfOne \cup FormulasOfTwo}

InitFunctions ==
    /\ VisitorsIdle
    /\ BodyIdle
    /\ ContextIdle
    /\ PipelineIdle
    /\ TraceIdle
    /\ call \in QuantilesToQuantileCalls \cup PopulateQueryFromMqlContextCalls
                \cup SelectEntityCalls \cup ConvertTimeseriesToQueryCalls
                \cup IncompleteParseCalls \cup VisitFilterCalls \cup VisitUnaryCalls
    /\ call_result = NoneValue

QuantilesToQuantile ==
    /\ call_result = NoneValue
    /\ call.function = "quantiles_to_quantile"
    /\ call_result' = Returned(quantiles_to_quantile(call.args.query))
    /\ UNCHANGED <<pipeline_vars, trace_vars, body_vars, visitor_vars, context_vars, call>>

\* MQLContext.from_dict gives the context the fields of the dict
PopulateQueryFromMqlContext ==
    /\ call_result = NoneValue
    /\ call.function = "populate_query_from_mql_context"
    /\ call_result' = populate_query_from_mql_context(call.args.query,
                                                       call.args.mql_context_dict)
    /\ UNCHANGED <<pipeline_vars, trace_vars, body_vars, visitor_vars, context_vars, call>>

SelectEntity ==
    /\ call_result = NoneValue
    /\ call.function = "select_entity"
    /\ call_result' = select_entity(call.args.mri, call.args.dataset)
    /\ UNCHANGED <<pipeline_vars, trace_vars, body_vars, visitor_vars, context_vars, call>>

ConvertTimeseriesToQuery ==
    /\ call_result = NoneValue
    /\ call.function = "convert_timeseries_to_query"
    /\ call_result' = convert_timeseries_to_query(call.args.parsed, call.args.dataset)
    /\ UNCHANGED <<pipeline_vars, trace_vars, body_vars, visitor_vars, context_vars, call>>

\* lines 682-694
IncompleteParse ==
    /\ call_result = NoneValue
    /\ call.function = "parse_mql_query_body"
    /\ call_result' = incomplete_parse_error(call.args.body, call.args.pos)
    /\ UNCHANGED <<pipeline_vars, trace_vars, body_vars, visitor_vars, context_vars, call>>

\* lines 198-250
VisitFilterOnFormula ==
    /\ call_result = NoneValue
    /\ call.function = "visit_filter"
    /\ call_result' =
            IF visit_filter_raises(call.args.target, call.args.new_condition,
                                   call.args.groupby)
            THEN Raised("InvalidQueryException", "Could not parse formula")
            ELSE Returned(visit_filter(call.args.target, call.args.new_condition,
                                       call.args.groupby))
    /\ UNCHANGED <<pipeline_vars, trace_vars, body_vars, visitor_vars, context_vars, call>>

\* lines 170-186
VisitUnaryOnOperand ==
    /\ call_result = NoneValue
    /\ call.function = "visit_unary"
    /\ call_result' =
            IF visit_unary_raises(call.args.unary_op, call.args.coefficient)
            THEN Raised("InvalidQueryException", "Unary expression not supported for type")
            ELSE Returned(visit_unary(call.args.unary_op, call.args.coefficient))
    /\ UNCHANGED <<pipeline_vars, trace_vars, body_vars, visitor_vars, context_vars, call>>

NextFunctions ==
    \/ VisitUnaryOnOperand
    \/ VisitFilterOnFormula
    \/ IncompleteParse
    \/ SelectEntity
    \/ ConvertTimeseriesToQuery
    \/ QuantilesToQuantile
    \/ PopulateQueryFromMqlContext

SpecFunctions == InitFunctions /\ [][NextFunctions]_vars

----------------------------------------------------------------------------
(* parse_mql_query_new, step by step.  The body is given as the tree the    *)
(* grammar and the visitor make of its text.                                *)

\* d:a,  sum(d:a),  quantiles(0.5)(d:a)  and  sum(d:a) + sum(g:b)
PipelineBodies ==
    { visit_unquoted_mri(EmptyAliasCount, <<"d", ":", "a">>),
      SumOf(<<"d", ":", "a">>, EmptyAliasCount, <<>>),
      Leaf([name |-> "quantiles", curried |-> TRUE, params |-> <<Float(5)>>], EmptyAliasCount),
      visit_expression(SumOf(<<"d", ":", "a">>, EmptyAliasCount, <<>>),
                       << <<"plus", SumOf(<<"g", ":", "b">>, AfterOne, <<>>)>> >>) }

PipelineContexts ==
    {MQLContext(Rollup(Integer(g), i, None, None), NoneValue, NoneValue) :
        g \in {5, 60}, i \in {NoneValue, Integer(60)}}

CustomProcessings ==
    {NoCustomProcessing} \cup
        {CustomProcessors(items) : items \in {<<>>, <<"custom_1">>, <<"custom_1", "custom_2">>}}

\* the caller passes no settings or its own settings object
CallerSettings == {NoneValue, HTTPQuerySettings("caller")}

InitPipeline ==
    /\ VisitorsIdle
    /\ BodyIdle
    /\ ContextIdle
    /\ FunctionsIdle
    /\ TraceIdle
    /\ pipeline_input \in
            {[body |-> b, dataset |-> d, mql_context_dict |-> c, custom_processing |-> p,
              settings |-> s] :
                b \in PipelineBodies, d \in Datasets, c \in PipelineContexts,
                p \in CustomProcessings, s \in CallerSettings}
    /\ pipeline_pc = "stage_a"
    /\ pipeline_steps = stage_a_steps
    /\ pipeline_calls = <<>>
    /\ res = QueryPipelineResult(NoneValue, NoException)
    /\ pipeline_outcome = NoneValue
    /\ settings_passed = <<>>

\* the next step of the running stage is `step`
AtStep(stage, step) ==
    /\ pipeline_pc = stage
    /\ res.error = NoException
    /\ pipeline_steps # <<>>
    /\ Head(pipeline_steps) = step

\* the step runs; QueryPipelineStage.execute keeps what it raises as the stage's error
StepEnds(step, result) ==
    /\ pipeline_calls' = Append(pipeline_calls, step)
    /\ pipeline_steps' = Tail(pipeline_steps)
    /\ settings_passed' =
            Append(settings_passed,
                   settings_given(step, stage_b_data(res.data, pipeline_input.settings,
                                                     pipeline_input.custom_processing).settings))
    /\ res' = IF result.exc = NoException
              THEN QueryPipelineResult(result.value, NoException)
              ELSE QueryPipelineResult(NoneValue, result.exc)
    /\ UNCHANGED <<body_vars, visitor_vars, context_vars, function_vars, trace_vars,
                   pipeline_input, pipeline_pc, pipeline_outcome>>

\* a collaborator returns or raises
CollaboratorResults(step) == {Returned(res.data), Raised("InvalidQueryException", step)}

ParseMqlQueryInitial ==
    /\ AtStep("stage_a", "parse_mql_query_body")
    /\ \E result \in {convert_parsed(pipeline_input.body, pipeline_input.dataset)} :
            StepEnds("parse_mql_query_body", result)

PopulateQueryStep ==
    /\ AtStep("stage_a", "populate_query_from_mql_context")
    /\ \E result \in {populate_query_from_mql_context(res.data,
                                                        pipeline_input.mql_context_dict)} :
            StepEnds("populate_query_from_mql_context",
                     IF result.exc = NoException THEN Returned(result.value[1]) ELSE result)

ResolveMappings ==
    /\ AtStep("stage_a", "resolve_mappings")
    /\ \E result \in CollaboratorResults("resolve_mappings") : StepEnds("resolve_mappings", result)

\* the end of a stage: its steps are done or one of them raised
StageEnded(stage) ==
    /\ pipeline_pc = stage
    /\ pipeline_steps = <<>> \/ res.error # NoException

\* lines 1292-1303
StageAReturns ==
    /\ StageEnded("stage_a")
    /\ IF after_stage(res) # NoneValue
       THEN /\ pipeline_pc' = "done"
            /\ pipeline_outcome' = after_stage(res)
       ELSE /\ pipeline_pc' = "treeify"
            /\ UNCHANGED pipeline_outcome
    /\ UNCHANGED <<body_vars, visitor_vars, context_vars, function_vars, trace_vars,
                   pipeline_input, pipeline_steps, pipeline_calls, res, settings_passed>>

\* lines 1308-1309: _post_process(query, [_treeify_or_and_conditions], settings)
TreeifyConditions ==
    /\ pipeline_pc = "treeify"
    /\ pipeline_calls' = Append(pipeline_calls, "_treeify_or_and_conditions")
    /\ settings_passed' = Append(settings_passed, pipeline_input.settings)
    /\ \/ /\ pipeline_pc' = "stage_b"
          /\ pipeline_steps' = stage_b_steps(pipeline_input.custom_processing)
          /\ UNCHANGED pipeline_outcome
       \/ /\ pipeline_pc' = "done"
          /\ pipeline_outcome' = Raised("InvalidQueryException", "_treeify_or_and_conditions")
          /\ UNCHANGED pipeline_steps
    /\ UNCHANGED <<body_vars, visitor_vars, context_vars, function_vars, trace_vars,
                   pipeline_input, res>>

PostProcessors ==
    \E i \in DOMAIN POST_PROCESSORS :
        /\ AtStep("stage_b", POST_PROCESSORS[i])
        /\ \E result \in CollaboratorResults(POST_PROCESSORS[i]) :
                StepEnds(POST_PROCESSORS[i], result)

QuantilesToQuantileStep ==
    /\ AtStep("stage_b", "quantiles_to_quantile")
    /\ \E result \in {Returned(quantiles_to_quantile(res.data))} :
            StepEnds("quantiles_to_quantile", result)

FilterInSelectOptimize ==
    /\ AtStep("stage_b", "FilterInSelectOptimizer")
    /\ \E result \in CollaboratorResults("FilterInSelectOptimizer") : StepEnds("FilterInSelectOptimizer", result)

CustomProcessing ==
    /\ pipeline_input.custom_processing.type = "list"
    /\ \E i \in DOMAIN pipeline_input.custom_processing.items :
            /\ AtStep("stage_b", pipeline_input.custom_processing.items[i])
            /\ \E result \in CollaboratorResults(pipeline_input.custom_processing.items[i]) :
                    StepEnds(pipeline_input.custom_processing.items[i], result)

ReplaceTimeCondition ==
    /\ AtStep("stage_b", "_replace_time_condition")
    /\ \E result \in CollaboratorResults("_replace_time_condition") : StepEnds("_replace_time_condition", result)

ExpressionValidators ==
    /\ AtStep("stage_b", "VALIDATORS")
    /\ \E result \in CollaboratorResults("VALIDATORS") : StepEnds("VALIDATORS", result)

\* lines 1311-1326
StageBReturns ==
    /\ StageEnded("stage_b")
    /\ pipeline_pc' = "done"
    /\ pipeline_outcome' = IF after_stage(res) # NoneValue THEN after_stage(res)
                           ELSE Returned(res.data)
    /\ UNCHANGED <<body_vars, visitor_vars, context_vars, function_vars, trace_vars,
                   pipeline_input, pipeline_steps, pipeline_calls, res, settings_passed>>

NextPipeline ==
    \/ ParseMqlQueryInitial
    \/ PopulateQueryStep
    \/ ResolveMappings
    \/ StageAReturns
    \/ TreeifyConditions
    \/ PostProcessors
    \/ QuantilesToQuantileStep
    \/ FilterInSelectOptimize
    \/ CustomProcessing
    \/ ReplaceTimeCondition
    \/ ExpressionValidators
    \/ StageBReturns

SpecPipeline == InitPipeline /\ [][NextPipeline]_vars

----------------------------------------------------------------------------
(* run_query_and_get_trace, step by step *)

TraceQueries ==
    {start \o columns \o end :
        start \in {"SELECT", "select", "  SeLeCt", "\n\tselect", "INSERT INTO t", "selec",
                   "WITH 1 AS x SELECT", ""},
        columns \in {" 1", "\tcount()\nFROM  errors_local", " count() FROM inserts",
                     " 1 INTO OUTFILE 'x'"},
        end \in {"", ";", " ; ", "; INSERT INTO t VALUES (1)"}}

InitTrace ==
    /\ VisitorsIdle
    /\ BodyIdle
    /\ ContextIdle
    /\ FunctionsIdle
    /\ PipelineIdle
    /\ trace_query \in TraceQueries
    /\ trace_pc = "validate"
    /\ connections = 0
    /\ executed = <<>>
    /\ trace_outcome = NoException

\* line 24
ValidateTraceQuery ==
    /\ trace_pc = "validate"
    /\ \E e \in {validate_trace_query(trace_query)} :
            /\ trace_outcome' = e
            /\ trace_pc' = IF e = NoException THEN "connect" ELSE "done"
    /\ UNCHANGED <<body_vars, visitor_vars, context_vars, function_vars, pipeline_vars,
                   trace_query, connections, executed>>

\* line 25: the storage has a read-only connection or the call raises
GetRoClusterConnection ==
    /\ trace_pc = "connect"
    /\ \/ /\ connections' = connections + 1
          /\ trace_pc' = "execute"
          /\ UNCHANGED trace_outcome
       \/ /\ trace_outcome' = Exception("InvalidCustomQuery", "the storage is not valid")
          /\ trace_pc' = "done"
          /\ UNCHANGED connections
    /\ UNCHANGED <<body_vars, visitor_vars, context_vars, function_vars, pipeline_vars,
                   trace_query, executed>>

\* lines 26-27: the query is sent as given; the server answers or reports an error
ExecuteTraceQuery ==
    /\ trace_pc = "execute"
    /\ executed' = Append(executed, trace_query)
    /\ trace_outcome' \in {NoException, Exception("ClickhouseError", "")}
    /\ trace_pc' = "done"
    /\ UNCHANGED <<body_vars, visitor_vars, context_vars, function_vars, pipeline_vars,
                   trace_query, connections>>

NextTrace ==
    \/ ValidateTraceQuery
    \/ GetRoClusterConnection
    \/ ExecuteTraceQuery

SpecTrace == InitTrace /\ [][NextTrace]_vars

----------------------------------------------------------------------------
(* Properties of parse_mql_query_body (specification Spec) *)

\* parse_mql_query_body went past the visitor: stack[1] is the root's result
Compiled == pc = "done" /\ stack # <<>>

IsFormulaTree(tree) == IF IsInitialParseResult(tree) THEN tree.formula # None ELSE FALSE

FormulaCompiled == IF Compiled THEN IsFormulaTree(stack[1]) ELSE FALSE

\* the leaves of the compiled tree, depth first and left to right
RootLeaves == IF Compiled THEN find_all_leaf_nodes(stack[1]) ELSE <<>>

Succeeded == outcome = NoException

GroupbyMismatch ==
    LET leaves == RootLeaves IN
    /\ Len(leaves) >= 2
    /\ \E i \in DOMAIN leaves : leaves[i].groupby # leaves[1].groupby

\* C1: a formula with two or more leaves, one of whose groupby lists differs from the
\* first leaf's (other columns, another order, or absent on one side), is rejected with
\* the InvalidQueryException "All terms in a formula must have the same groupby", and
\* no plan is produced.
C1_GroupbyMismatchRejected ==
    (FormulaCompiled /\ GroupbyMismatch)
        => /\ outcome = Exception("InvalidQueryException",
                                  "All terms in a formula must have the same groupby")
           /\ plan = NoQuery

\* two leaves grouped by the same columns in a different order
C1_Witness ==
    /\ FormulaCompiled
    /\ Len(RootLeaves) = 2
    /\ RootLeaves[1].groupby = visit_group_by(<<"x", "y">>)
    /\ RootLeaves[2].groupby = visit_group_by(<<"y", "x">>)
    /\ outcome.class = "InvalidQueryException"

\* the key conditions of a join plan, outermost join first
RECURSIVE JoinKeys(_)
JoinKeys(node) ==
    IF node.type = "JoinClause"
    THEN node.keys \o JoinKeys(node.left_node) \o JoinKeys(node.right_node)
    ELSE <<>>

\* for i = 2..n and each groupby column g in order: (alias of Li, g) = (alias of L(i-1), g)
ChainKeys(leaves) ==
    Concat([i \in 1..(Len(leaves) - 1) |->
        [j \in DOMAIN leaves[1].groupby |->
            JoinCondition(
                JoinConditionExpression(leaves[i + 1].table_alias,
                                        leaves[1].groupby[j].expression.column_name),
                JoinConditionExpression(leaves[i].table_alias,
                                        leaves[1].groupby[j].expression.column_name))]])

\* C2: the join plan of a formula with leaves L1..Ln (n >= 2) that share the groupby
\* columns g1..gk holds, for each i in 2..n, exactly the k key conditions equating
\* (alias of Li, g) with (alias of L(i-1), g), and no other key condition.
C2_JoinKeysChain ==
    (FormulaCompiled /\ Succeeded)
        => LET leaves == RootLeaves IN
           Len(leaves) >= 2
            => /\ plan.from_clause.type = "JoinClause"
               /\ JoinKeys(plan.from_clause) = ChainKeys(leaves)

\* three leaves grouped by one column: two key conditions
C2_Witness ==
    /\ FormulaCompiled
    /\ Succeeded
    /\ Len(RootLeaves) = 3
    /\ Len(RootLeaves[1].groupby) = 1
    /\ Len(JoinKeys(plan.from_clause)) = 2

\* a filter condition with every column of it qualified by table_name
RECURSIVE Qualified(_, _)
Qualified(condition, table_name) ==
    IF condition.function_name \in {"and", "or"}
    THEN [condition EXCEPT !.parameters =
            [i \in DOMAIN condition.parameters |->
                Qualified(condition.parameters[i], table_name)]]
    ELSE [condition EXCEPT !.parameters[1].table_name = table_name]

\* C3: every filter condition the visitor attached to a leaf of a formula (a single
\* comparison, a membership test, or an AND/OR combination) is a conjunct of the
\* compiled plan's condition, qualified by the leaf's alias.
C3_NoFilterLost ==
    (FormulaCompiled /\ Succeeded)
        => LET leaves == RootLeaves IN
           \A i \in DOMAIN leaves :
            \A k \in DOMAIN leaves[i].conditions :
                \E n \in DOMAIN plan.condition :
                    plan.condition[n] =
                        Qualified(leaves[i].conditions[k],
                                  IF plan.type = "LogicalQuery" THEN <<>>
                                  ELSE leaves[i].table_alias)

IsMetricIdCondition(condition) ==
    IF condition.function_name = "equals" /\ condition.parameters[1].type = "Column"
    THEN condition.parameters[1].column_name = "metric_id"
    ELSE FALSE

MetricIdConditions(conditions) == SelectSeq(conditions, IsMetricIdCondition)

\* C4: the condition of the plan of a formula with n leaves holds exactly n metric_id
\* equalities, the i-th comparing the metric_id column under leaf i's alias (no
\* qualifier on a single-source plan) with leaf i's MRI.
C4_MetricPinning ==
    (FormulaCompiled /\ Succeeded)
        => LET leaves == RootLeaves IN
           MetricIdConditions(plan.condition) =
            [i \in DOMAIN leaves |->
                FunctionCall(None, "equals",
                    <<Column(None,
                             IF plan.type = "LogicalQuery" THEN <<>>
                             ELSE leaves[i].table_alias,
                             "metric_id"),
                      Literal(None, StrOfChars(leaves[i].mri))>>)]

\* two leaves of different metrics in one join
C4_Witness ==
    /\ FormulaCompiled
    /\ Succeeded
    /\ Len(RootLeaves) = 2
    /\ RootLeaves[1].mri # RootLeaves[2].mri
    /\ Len(MetricIdConditions(plan.condition)) = 2

\* the table qualifiers of the columns of an expression
RECURSIVE TableNames(_)
TableNames(expression) ==
    IF expression.type = "Column" THEN {expression.table_name}
    ELSE IF expression.type = "FunctionCall"
    THEN UNION {TableNames(expression.parameters[i]) : i \in DOMAIN expression.parameters}
    ELSE IF expression.type = "CurriedFunctionCall"
    THEN TableNames(expression.internal_function)
            \cup UNION {TableNames(expression.parameters[i]) :
                            i \in DOMAIN expression.parameters}
    ELSE {}

PlanTableNames(query) ==
    UNION ({TableNames(query.selected_columns[i].expression) :
                i \in DOMAIN query.selected_columns}
           \cup {TableNames(query.groupby[i]) : i \in DOMAIN query.groupby}
           \cup {TableNames(query.condition[i]) : i \in DOMAIN query.condition})

\* C5: a formula with exactly one leaf compiles to a single-source plan over an entity,
\* with no qualifier on any column; a formula with two or more leaves compiles to a
\* composite plan over a join clause, also when the leaves are of the same entity.
C5_JoinOnlyWhenNeeded ==
    (FormulaCompiled /\ Succeeded)
        => IF Len(RootLeaves) = 1
           THEN /\ plan.type = "LogicalQuery"
                /\ plan.from_clause.type = "Entity"
                /\ PlanTableNames(plan) = {<<>>}
           ELSE /\ plan.type = "CompositeQuery"
                /\ plan.from_clause.type = "JoinClause"

\* one metric combined with a number
C5_Witness ==
    /\ FormulaCompiled
    /\ Succeeded
    /\ Len(RootLeaves) = 1
    /\ \E i \in DOMAIN stack[1].parameters : IsNumber(stack[1].parameters[i])
    /\ plan.type = "LogicalQuery"

\* C6: parse_mql_query_body returns a plan or raises a ParsingException or an
\* InvalidQueryException; no other exception leaves it.
C6_OnlyTwoFailureKinds ==
    pc = "done" => outcome.class \in {None, "ParsingException", "InvalidQueryException"}

\* the leaves held by the visitor, in visit order
LeavesOf(entries) == Concat([i \in DOMAIN entries |-> find_all_leaf_nodes(entries[i])])

StackLeaves == LeavesOf(stack)

AliasPairs(leaves) == [i \in DOMAIN leaves |-> <<leaves[i].mri, leaves[i].table_alias>>]

RECURSIVE IsSubseq(_, _)
IsSubseq(a, b) ==
    IF a = <<>> THEN TRUE
    ELSE IF b = <<>> THEN FALSE
    ELSE IF Head(a) = Head(b) THEN IsSubseq(Tail(a), Tail(b))
    ELSE IsSubseq(a, Tail(b))

Front(a) == SubSeq(a, 1, Len(a) - 1)

\* the aliases of the sources of a join plan, in the order of the leaves
RECURSIVE JoinAliases(_)
JoinAliases(node) ==
    IF node.type = "JoinClause"
    THEN JoinAliases(node.right_node) \o JoinAliases(node.left_node)
    ELSE <<node.alias>>

\* the aliases in use are pairwise distinct, each the first character of its MRI
\* followed by a number, and a join plan names its sources by the leaves' aliases
AliasesUnique ==
    LET leaves == StackLeaves IN
    /\ \A i, j \in DOMAIN leaves : i # j => leaves[i].table_alias # leaves[j].table_alias
    /\ \A i \in DOMAIN leaves :
            \E n \in 0..MaxTokens :
                leaves[i].table_alias = <<leaves[i].mri[1]>> \o DecimalString(n)
    /\ (FormulaCompiled /\ Succeeded /\ Len(leaves) >= 2)
            => JoinAliases(plan.from_clause) = [i \in DOMAIN leaves |-> leaves[i].table_alias]

\* a visit of an identifier of first character c, c visited k-1 times before, adds one
\* leaf with alias c(k-1); every other leaf keeps its alias, and no other step assigns
\* or changes an alias
AliasStep ==
    \E next_stack \in {stack'} :
        LET before == AliasPairs(StackLeaves)
            after == AliasPairs(LeavesOf(next_stack))
        IN  IF alias_count' # alias_count
            THEN /\ after # <<>>
                 /\ LET c == after[Len(after)][1][1] IN
                     /\ alias_count' = [alias_count EXCEPT ![c] = @ + 1]
                     /\ after[Len(after)][2] = <<c>> \o DecimalString(alias_count[c] + 1)
                 /\ IsSubseq(Front(after), before)
            ELSE IsSubseq(after, before)

\* C7: within one compilation the k-th identifier visited whose first character is c
\* gets the alias c followed by k-1 (the counter of c starts at -1), so the aliases in
\* use are pairwise distinct, and a leaf's alias never changes afterwards.
C7_AliasesNumberedUniqueStable ==
    /\ alias_count = [c \in FirstChars |-> -1]
    /\ []AliasesUnique
    /\ [][AliasStep]_vars

\* the leaves d0, g0 and d1 of one tree
C7_Witness ==
    /\ Len(StackLeaves) = 3
    /\ StackLeaves[1].table_alias = <<"d", "0">>
    /\ StackLeaves[2].table_alias = <<"g", "0">>
    /\ StackLeaves[3].table_alias = <<"d", "1">>
    /\ StackLeaves[3].mri = <<"d", ":", "a">>

----------------------------------------------------------------------------
(* Properties of side-by-side compilations (specification SpecVisitors) *)

\* the alias of the i-th identifier of a text compiled alone: its first character and
\* the number of earlier identifiers of the text with that first character
AliasAlone(text, i) ==
    <<text[i][1]>> \o DecimalString(Cardinality({j \in 1..(i - 1) : text[j][1] = text[i][1]}))

\* C8: whatever calls came before and however the steps of the two callers interleave,
\* every alias a visitor assigns is the one its text gets when compiled alone.
C8_AliasStateNotShared ==
    visitors # <<>> =>
        \A p \in Callers :
            \A i \in DOMAIN visitors[p].table_aliases :
                visitors[p].table_aliases[i] = AliasAlone(visitors[p].text, i)

\* the second caller compiles its second text while the first caller is half way,
\* both texts being of two identifiers with the same first character
C8_Witness ==
    /\ visitors # <<>>
    /\ visitors[1].state = "visit"
    /\ Len(visitors[1].table_aliases) = 1
    /\ visitors[2].calls = 2
    /\ visitors[2].table_aliases = << <<"d", "0">>, <<"d", "1">> >>
    /\ visitors[1].text[1][1] = "d"

----------------------------------------------------------------------------
(* Properties of populate_rollup (specification SpecRollup) *)

Populated == context_pc = "done"

RollupRejected == context_outcome.class = "ParsingException"

HasTimeBucket(query) ==
    \E i \in DOMAIN query.selected_columns : query.selected_columns[i].name = "time"

\* C9: populate_rollup raises when the granularity is not one of
\* GRANULARITIES_AVAILABLE, when with_totals is set and is neither "True" nor "False",
\* when an interval (of any value, 0 included) is given together with an orderby, and
\* when an orderby is given that is neither "ASC" nor "DESC".
C9_RollupValidation ==
    Populated =>
        LET rollup == mql_context.rollup IN
        /\ (\A k \in DOMAIN GRANULARITIES_AVAILABLE :
                GRANULARITIES_AVAILABLE[k] # rollup.granularity.i) => RollupRejected
        /\ (rollup.with_totals # None /\ rollup.with_totals \notin {"True", "False"})
                => RollupRejected
        /\ (rollup.interval # NoneValue /\ rollup.orderby # None) => RollupRejected
        /\ (rollup.orderby # None /\ rollup.orderby \notin {"ASC", "DESC"})
                => RollupRejected

\* interval 0 together with an orderby, every other setting valid
C9_Witness ==
    /\ Populated
    /\ mql_context.rollup = Rollup(Integer(60), Integer(0), None, "ASC")
    /\ context_outcome = Exception("ParsingException",
                                   "orderby is not supported when interval is specified")

\* C10: whenever an interval is given (any integer, 0 and negative values included)
\* that is smaller than the granularity or than the smallest allowed granularity,
\* populate_rollup raises and adds no time bucket.
C10_IntervalLowerBound ==
    Populated =>
        LET rollup == mql_context.rollup IN
        (IF rollup.interval = NoneValue THEN FALSE
         ELSE \/ rollup.interval.i < rollup.granularity.i
              \/ rollup.interval.i < GRANULARITIES_AVAILABLE[1])
            => (RollupRejected /\ ~HasTimeBucket(context_query))

----------------------------------------------------------------------------
(* Properties of populate_limit (specification SpecLimit) *)

LimitPopulated == context_pc = "done" /\ context_call = "populate_limit"

\* C11: populate_limit sets the plan's limit to 1000 when the context has no limit, to
\* the context's limit when that is at most 10000 (0 included), and raises without
\* setting the plan's limit when the context's limit is above 10000.
C11_LimitHandling ==
    LimitPopulated =>
        IF mql_context.limit = NoneValue
        THEN context_outcome = NoException /\ context_query.limit = Integer(1000)
        ELSE IF mql_context.limit.i <= 10000
        THEN context_outcome = NoException /\ context_query.limit = mql_context.limit
        ELSE /\ context_outcome.class = "ParsingException"
             /\ context_query.limit = NoneValue

----------------------------------------------------------------------------
(* Properties of single functions (specification SpecFunctions) *)

Applied(function) ==
    IF call = NoneValue \/ call_result = NoneValue THEN FALSE
    ELSE call.function = function

\* a curried call of quantiles or quantilesIf with exactly one parameter
IsSingleQuantiles(exp) ==
    IF exp.type = "CurriedFunctionCall"
    THEN /\ exp.internal_function.function_name \in {"quantiles", "quantilesIf"}
         /\ Len(exp.internal_function.parameters) = 1
    ELSE FALSE

\* exp with every such call inside it, and exp itself if it is one, wrapped
RECURSIVE Unwrapped(_)
Unwrapped(exp) ==
    LET inside ==
            IF exp.type \in {"FunctionCall", "CurriedFunctionCall"}
            THEN [exp EXCEPT !.parameters =
                    [i \in DOMAIN exp.parameters |-> Unwrapped(exp.parameters[i])]]
            ELSE exp
    IN  IF IsSingleQuantiles(exp)
        THEN FunctionCall(exp.alias, "arrayElement",
                          <<[inside EXCEPT !.alias = None], Literal(None, Integer(1))>>)
        ELSE inside

RECURSIVE HasSingleQuantiles(_)
HasSingleQuantiles(exp) ==
    IF IsSingleQuantiles(exp) THEN TRUE
    ELSE IF exp.type \in {"FunctionCall", "CurriedFunctionCall"}
    THEN \E i \in DOMAIN exp.parameters : HasSingleQuantiles(exp.parameters[i])
    ELSE FALSE

\* C12: quantiles_to_quantile rewrites every curried call of quantiles or quantilesIf
\* with exactly one parameter, at any depth of a selected expression, to
\* arrayElement(<that call>, 1), the call's alias moving to the arrayElement and the call
\* itself keeping no alias; a call with no or with several parameters, a curried call of
\* another function and every other expression of the plan are left as they were.
C12_QuantileUnwrap ==
    Applied("quantiles_to_quantile") =>
        LET before == call.args.query
            after == call_result.value
        IN  /\ DOMAIN after.selected_columns = DOMAIN before.selected_columns
            /\ \A i \in DOMAIN before.selected_columns :
                    /\ after.selected_columns[i].name = before.selected_columns[i].name
                    /\ after.selected_columns[i].expression
                            = Unwrapped(before.selected_columns[i].expression)
                    /\ ~HasSingleQuantiles(before.selected_columns[i].expression)
                            => after.selected_columns[i] = before.selected_columns[i]
            /\ [after EXCEPT !.selected_columns = before.selected_columns] = before

\* quantilesIf(0.5)(d:a): the alias moves to the arrayElement
C12_Witness ==
    /\ Applied("quantiles_to_quantile")
    /\ call.args.query.selected_columns[1].expression.type = "CurriedFunctionCall"
    /\ call.args.query.selected_columns[1].expression.alias = AGGREGATE_ALIAS
    /\ call_result.value.selected_columns[1].expression.type = "FunctionCall"
    /\ call_result.value.selected_columns[1].expression.function_name = "arrayElement"
    /\ call_result.value.selected_columns[1].expression.alias = AGGREGATE_ALIAS
    /\ call_result.value.selected_columns[1].expression.parameters[1].alias = None
    /\ call_result.value.selected_columns[1].expression.parameters[1]
            .internal_function.function_name = "quantilesIf"

\* the aliases of the sources of a join
RECURSIVE AliasesOf(_)
AliasesOf(node) ==
    IF node.type = "JoinClause"
    THEN AliasesOf(node.left_node) \cup AliasesOf(node.right_node)
    ELSE {node.alias}

Range(f) == {f[i] : i \in DOMAIN f}

PopulateReturned ==
    IF Applied("populate_query_from_mql_context") THEN call_result.exc = NoException
    ELSE FALSE

\* C13: when populate_query_from_mql_context adds a time bucket to a join plan over n
\* aliases, the keys of the root join clause are the keys it had, in their order,
\* followed by exactly n-1 conditions, one for each alias other than the alias of the
\* root's right node, each equating the time column of that base alias with the time
\* column of the other alias; nothing else of the from-clause changes.  On a
\* single-source plan, and when no time bucket is added, the from-clause is unchanged.
C13_TimeJoinFixUp ==
    PopulateReturned =>
        LET before == call.args.query
            after == call_result.value[1]
        IN  IF before.type = "CompositeQuery" /\ HasTimeBucket(after)
            THEN LET root == before.from_clause
                     base == root.right_node.alias
                     added == SubSeq(after.from_clause.keys, Len(root.keys) + 1,
                                     Len(after.from_clause.keys))
                 IN  /\ [after.from_clause EXCEPT !.keys = root.keys] = root
                     /\ SubSeq(after.from_clause.keys, 1, Len(root.keys)) = root.keys
                     /\ Len(added) = Cardinality(AliasesOf(root)) - 1
                     /\ Range(added) =
                            {JoinCondition(JoinConditionExpression(base, "time"),
                                           JoinConditionExpression(a, "time")) :
                                a \in AliasesOf(root) \ {base}}
            ELSE after.from_clause = before.from_clause

\* a join of three aliases grouped by x, bucketed by an interval of 60 seconds
C13_Witness ==
    /\ PopulateReturned
    /\ call.args.query.type = "CompositeQuery"
    /\ Cardinality(AliasesOf(call.args.query.from_clause)) = 3
    /\ Len(call.args.query.from_clause.keys) = 1
    /\ call.args.mql_context_dict.rollup.interval = Integer(60)
    /\ Len(call_result.value[1].from_clause.keys) = 3

\* the first characters that resolve in a dataset
Resolves(dataset) ==
    IF dataset = "metrics" THEN {"c", "d", "s"}
    ELSE IF dataset = "generic_metrics" THEN {"c", "d", "s", "g"}
    ELSE {}

\* C14: select_entity resolves an identifier by its first character and the dataset:
\* c, d and s to the counters, distributions and sets of the standard dataset, c, d, s
\* and g to the counters, distributions, sets and gauges of the generic dataset; every
\* other first character (g in the standard dataset too) and every other dataset raise a
\* ParsingException whose message names the character.
C14_EntityResolution ==
    (IF Applied("select_entity") THEN call.args.mri # <<>> ELSE FALSE) =>
        LET c == call.args.mri[1]
            dataset == call.args.dataset
        IN  IF c \in Resolves(dataset)
            THEN /\ call_result.exc = NoException
                 /\ call_result.value =
                        (IF dataset = "metrics" THEN "METRICS_" ELSE "GENERIC_METRICS_")
                            \o (CASE c = "c" -> "COUNTERS" [] c = "d" -> "DISTRIBUTIONS"
                                   [] c = "s" -> "SETS" [] c = "g" -> "GAUGES")
            ELSE call_result.exc =
                    Exception("ParsingException", "invalid metric type " \o c)

\* a gauge in the standard dataset
C14_Witness ==
    /\ Applied("select_entity")
    /\ call.args = [mri |-> <<"g", ":", "a">>, dataset |-> "metrics"]
    /\ call_result.exc = Exception("ParsingException", "invalid metric type g")

\* C15: convert_timeseries_to_query turns a leaf with an expression and a metric
\* identifier (of a type its dataset resolves) into a single-source plan that selects
\* the leaf's expression followed by its group-by columns in order, groups by those
\* columns, and whose condition is metric_id = <identifier> followed by the leaf's
\* filters in order; without group-by and filters the one selected column is the
\* aggregate over value and the one condition the metric_id equality.  A leaf with an
\* expression and no metric identifier raises a ParsingException.
C15_TimeseriesBuilder ==
    (IF Applied("convert_timeseries_to_query")
     THEN call.args.parsed.expression # NoneValue ELSE FALSE) =>
        LET leaf == call.args.parsed
            query == call_result.value
        IN  IF leaf.mri = <<>>
            THEN call_result.exc.class = "ParsingException"
            ELSE IF leaf.mri[1] \in Resolves(call.args.dataset)
            THEN /\ call_result.exc = NoException
                 /\ query.type = "LogicalQuery"
                 /\ query.from_clause.type = "Entity"
                 /\ query.selected_columns = <<leaf.expression>> \o leaf.groupby
                 /\ query.groupby = [i \in DOMAIN leaf.groupby |-> leaf.groupby[i].expression]
                 /\ query.condition =
                        <<FunctionCall(None, "equals",
                            <<Column(None, <<>>, "metric_id"),
                              Literal(None, StrOfChars(leaf.mri))>>)>>
                            \o leaf.conditions
                 /\ (leaf.groupby = <<>> /\ leaf.conditions = <<>>)
                        => /\ Len(query.selected_columns) = 1
                           /\ query.selected_columns[1].expression.parameters
                                = <<Column(None, <<>>, "value")>>
                           /\ Len(query.condition) = 1
            ELSE call_result.exc.class = "ParsingException"

\* a leaf grouped by two columns with two filters
C15_Witness ==
    /\ Applied("convert_timeseries_to_query")
    /\ call_result.exc = NoException
    /\ Len(call.args.parsed.groupby) = 2
    /\ Len(call.args.parsed.conditions) = 2
    /\ Len(call_result.value.selected_columns) = 3
    /\ Len(call_result.value.condition) = 3

----------------------------------------------------------------------------
(* Properties of parse_mql_query_new (specification SpecPipeline) *)

\* the steps run after the treeify step
StageBCalls ==
    IF Len(pipeline_calls) > Len(stage_a_steps) + 1
    THEN SubSeq(pipeline_calls, Len(stage_a_steps) + 2, Len(pipeline_calls))
    ELSE <<>>

IsPrefix(s, t) == IF Len(s) <= Len(t) THEN s = SubSeq(t, 1, Len(s)) ELSE FALSE

PlanReturned ==
    IF pipeline_pc = "done" THEN pipeline_outcome.exc = NoException ELSE FALSE

\* C16: stage B runs, in this order, the generic post-processors, the
\* quantile-unwrap transform, the filter-in-select optimizer, the caller's custom
\* processors (if any), the time-condition finalization and the semantic validators:
\* whatever it has run so far is a prefix of that order, a returned plan went through
\* all of it, and nothing runs after the validators.
C16_StageBOrdering ==
    (pipeline_pc # "idle") =>
        LET custom_processing == pipeline_input.custom_processing
            custom == IF custom_processing.type = "NoneType" THEN <<>>
                      ELSE custom_processing.items
            order == <<"POST_PROCESSORS", "quantiles_to_quantile",
                       "FilterInSelectOptimizer">>
                        \o custom
                        \o <<"_replace_time_condition", "VALIDATORS">>
        IN  /\ IsPrefix(StageBCalls, order)
            /\ PlanReturned => StageBCalls = order
            /\ \A i \in DOMAIN pipeline_calls :
                    pipeline_calls[i] = "VALIDATORS" => i = Len(pipeline_calls)

\* a plan returned after two custom processors
C16_Witness ==
    /\ PlanReturned
    /\ pipeline_input.custom_processing = CustomProcessors(<<"custom_1", "custom_2">>)
    /\ pipeline_calls[Len(pipeline_calls)] = "VALIDATORS"
    /\ pipeline_calls[Len(pipeline_calls) - 2] = "custom_2"

\* a step of the pipeline has raised
PipelineErrored ==
    IF pipeline_pc = "idle" THEN FALSE
    ELSE IF res.error # NoException THEN TRUE
    ELSE IF pipeline_outcome = NoneValue THEN FALSE
    ELSE pipeline_outcome.exc # NoException

\* C17: the pipeline runs stage A, the treeify step and stage B in order and stops at
\* the first error: once a step has raised no further step runs (so neither the
\* treeify step nor stage B runs after an error of stage A), and the pipeline ends
\* raising that step's error to the caller, without a plan.
C17_FailFast ==
    /\ [][PipelineErrored => pipeline_calls' = pipeline_calls]_vars
    /\ [](pipeline_pc # "idle" =>
            IsPrefix(pipeline_calls,
                     stage_a_steps \o <<"_treeify_or_and_conditions">> \o StageBCalls))
    /\ []((IF pipeline_pc = "done" THEN PipelineErrored ELSE FALSE) =>
            /\ pipeline_outcome.value = NoneValue
            /\ pipeline_outcome.exc # NoException
            /\ res.error # NoException => pipeline_outcome.exc = res.error)

\* the context of a parsed body is rejected: stage A ends after its second step
C17_Witness ==
    /\ pipeline_pc = "done"
    /\ pipeline_calls = <<"parse_mql_query_body", "populate_query_from_mql_context">>
    /\ pipeline_outcome.exc # NoException
    /\ pipeline_outcome.exc = res.error

----------------------------------------------------------------------------
(* Properties of the syntax error (specification SpecFunctions) *)

\* C18: when the grammar does not consume the whole body, the error raised to the
\* caller is a parsing error whose message carries the line (from 1), the column
\* (from 1) and an excerpt of the offending line: the at most 3 characters before the
\* error column followed by the at most 10 characters from it (the offending line
\* being the whole body when the line number exceeds the number of lines).
C18_SyntaxErrorContent ==
    Applied("parse_mql_query_body") =>
        LET body == call.args.body
            lines == split(body, "\n")
            e_line == ParseError_line(body, call.args.pos)
            column == ParseError_column(body, call.args.pos)
            line == IF e_line > Len(lines) THEN body ELSE lines[e_line]
            at == column - 1
            excerpt == Slice(line, IF at - 3 > 0 THEN at - 3 ELSE 0, at)
                        \o Slice(line, at, at + 10)
            message == call_result.exc.message
        IN  /\ call_result.exc.class = "ParsingException"
            /\ Contains(message, JoinChars(DecimalString(e_line)))
            /\ Contains(message, JoinChars(DecimalString(column)))
            /\ Contains(message, excerpt)

----------------------------------------------------------------------------
(* Properties of run_query_and_get_trace (specification SpecTrace) *)

\* the query after whitespace normalisation and lower-casing
Normalised == strip(lower(join(" ", split_whitespace(trace_query, ""))))

\* the query is one validate_trace_query has to reject
Invalid ==
    \/ ~StartsWith(Normalised, "select")
    \/ Contains(Normalised, "insert")
    \/ Contains(Normalised, ";")

\* a select without "insert" that ends with a semicolon
TrailingSemicolon ==
    /\ StartsWith(Normalised, "select")
    /\ ~Contains(Normalised, "insert")
    /\ Slice(Normalised, Len(Normalised) - 1, Len(Normalised)) = ";"

\* C19: run_query_and_get_trace validates before it executes.  No connection is
\* obtained and nothing is executed before validate_trace_query has returned; for a
\* query that, normalised, does not start with "select" or contains "insert" or ";",
\* the call ends with InvalidCustomQuery (with the message "; is not allowed in the
\* query" for a trailing semicolon), without a connection and with nothing executed;
\* what is executed is the query as given.
C19_TraceValidatedBeforeExecution ==
    (trace_pc # "idle") =>
        /\ trace_pc = "validate" => (connections = 0 /\ executed = <<>>)
        /\ Invalid =>
            /\ connections = 0
            /\ executed = <<>>
            /\ trace_pc \in {"validate", "done"}
            /\ trace_pc = "done" => trace_outcome.class = "InvalidCustomQuery"
        /\ (TrailingSemicolon /\ trace_pc = "done") =>
                trace_outcome.message = "; is not allowed in the query"
        /\ \A i \in DOMAIN executed : executed[i] = trace_query

\* the query of the test: a select that ends with a semicolon is rejected
C19_Witness ==
    /\ trace_pc = "done"
    /\ trace_query = "SELECT\tcount()\nFROM  errors_local;"
    /\ trace_outcome = Exception("InvalidCustomQuery", "; is not allowed in the query")
    /\ connections = 0
    /\ executed = <<>>

----------------------------------------------------------------------------
(* Properties of visit_filter (specification SpecFunctions) *)

\* a node beneath (or at) `node` has neither an expression nor a formula
RECURSIVE HasUnparsedNode(_)
HasUnparsedNode(node) ==
    IF ~IsInitialParseResult(node) THEN FALSE
    ELSE IF node.formula # None
    THEN \E i \in DOMAIN node.parameters : HasUnparsedNode(node.parameters[i])
    ELSE node.expression = NoneValue

\* `after` is `before` with the clauses on every leaf and nowhere else
RECURSIVE PushedDown(_, _, _, _)
PushedDown(before, after, new_condition, groupby) ==
    IF ~IsInitialParseResult(before) THEN after = before
    ELSE IF before.formula # None
    THEN /\ IsInitialParseResult(after)
         /\ after.formula = before.formula
         /\ after.conditions = before.conditions
         /\ after.groupby = before.groupby
         /\ after.expression = before.expression
         /\ DOMAIN after.parameters = DOMAIN before.parameters
         /\ \A i \in DOMAIN before.parameters :
                PushedDown(before.parameters[i], after.parameters[i], new_condition, groupby)
    ELSE /\ after.conditions = before.conditions \o new_condition
         /\ after.groupby = before.groupby \o groupby
         /\ after.expression = before.expression
         /\ after.mri = before.mri
         /\ after.table_alias = before.table_alias
         /\ after.formula = None

\* the nesting depth of the formulas of a node
RECURSIVE Depth(_)
Depth(node) ==
    IF ~IsInitialParseResult(node) THEN 0
    ELSE IF node.formula = None THEN 0
    ELSE 1 + (IF Depth(node.parameters[1]) > Depth(node.parameters[Len(node.parameters)])
              THEN Depth(node.parameters[1])
              ELSE Depth(node.parameters[Len(node.parameters)]))

\* C20: a filter and/or group-by attached to a formula node is pushed down.  After
\* visit_filter every leaf beneath the node, at every depth, has the new filter appended
\* to its conditions and the new group-by columns appended to its groupby, numbers are
\* as they were and the formula nodes have no conditions nor groupby of their own; if a
\* node beneath has neither an expression nor a formula, visit_filter raises "Could not
\* parse formula".
C20_FilterPushdown ==
    (IF Applied("visit_filter")
     THEN /\ call.args.target.formula # None
          /\ call.args.new_condition # <<>> \/ call.args.groupby # <<>>
     ELSE FALSE) =>
        IF HasUnparsedNode(call.args.target)
        THEN call_result.exc =
                Exception("InvalidQueryException", "Could not parse formula")
        ELSE /\ call_result.exc = NoException
             /\ PushedDown(call.args.target, call_result.value,
                           call.args.new_condition, call.args.groupby)
             /\ call_result.value.conditions = <<>>
             /\ call_result.value.groupby = <<>>

\* a filter and a group-by reach a leaf three formulas down that had a filter and a
\* group-by of its own, past a number
C20_Witness ==
    /\ Applied("visit_filter")
    /\ call_result.exc = NoException
    /\ Depth(call.args.target) = 3
    /\ call.args.new_condition # <<>>
    /\ Len(call.args.groupby) = 2
    /\ LET leaf == call_result.value.parameters[2].parameters[1].parameters[2]
       IN  /\ Len(leaf.conditions) = 2
           /\ Len(leaf.groupby) = 3
    /\ call_result.value.parameters[2].parameters[2] = Float(2)

----------------------------------------------------------------------------
(* Properties of the handlers that attach clauses (specification Spec) *)

IsLeaf(node) == IF IsInitialParseResult(node) THEN node.formula = None ELSE FALSE

\* C21: a handler that attaches a filter or a group-by to a leaf keeps what the leaf
\* already carries.  Whenever a handler replaces the leaf it was given by a leaf, the
\* conditions and the groupby columns the leaf had are all still there, in their
\* order, at the front of the new lists: new ones are appended, none is replaced or
\* dropped.
C21_LeafAccumulation ==
    [][(IF stack # <<>> /\ Len(stack') = Len(stack)
        THEN IsLeaf(stack[Len(stack)]) /\ IsLeaf(stack'[Len(stack)])
        ELSE FALSE) =>
            /\ IsPrefix(stack[Len(stack)].conditions, stack'[Len(stack)].conditions)
            /\ IsPrefix(stack[Len(stack)].groupby, stack'[Len(stack)].groupby)]_vars

----------------------------------------------------------------------------
(* Properties of visit_unary (specification SpecFunctions) *)

\* C22: visit_unary with a unary operator returns the negated number for a number
\* (a number, no node), for a node (leaf or formula) a new formula node with the
\* operator negate and the node, unchanged, as its one operand, and raises a semantic
\* error for any other value; without a unary operator it returns its operand as it is.
C22_UnaryMinus ==
    Applied("visit_unary") =>
        LET coefficient == call.args.coefficient IN
        IF call.args.unary_op = <<>> THEN call_result = Returned(coefficient)
        ELSE IF coefficient.type = "float"
        THEN /\ call_result.exc = NoException
             /\ call_result.value.type = "float"
             /\ call_result.value.f = 0 - coefficient.f
        ELSE IF coefficient.type = "InitialParseResult"
        THEN /\ call_result.exc = NoException
             /\ call_result.value.type = "InitialParseResult"
             /\ call_result.value.formula = "negate"
             /\ call_result.value.parameters = <<coefficient>>
             /\ call_result.value.expression = NoneValue
        ELSE /\ call_result.exc.class = "InvalidQueryException"
             /\ call_result.value = NoneValue

\* the minus before a formula of two operators
C22_Witness ==
    /\ Applied("visit_unary")
    /\ call.args.unary_op = <<"negate">>
    /\ call.args.coefficient \in FormulasOfTwo
    /\ call_result.value.formula = "negate"
    /\ call_result.value.parameters = <<call.args.coefficient>>

----------------------------------------------------------------------------
(* Properties of the join clause (specification Spec) *)

\* the number of join nodes of a tree
RECURSIVE JoinNodes(_)
JoinNodes(node) ==
    IF node.type = "JoinClause"
    THEN 1 + JoinNodes(node.left_node) + JoinNodes(node.right_node)
    ELSE 0

\* every join is an inner join of a join or an aliased entity (left) with an aliased
\* entity (right)
RECURSIVE LeftDeep(_)
LeftDeep(node) ==
    IF node.type = "JoinClause"
    THEN /\ node.join_type = "INNER"
         /\ node.right_node.type = "IndividualNode"
         /\ node.right_node.data_source.type = "Entity"
         /\ LeftDeep(node.left_node)
    ELSE /\ node.type = "IndividualNode"
         /\ node.data_source.type = "Entity"

RECURSIVE DeepestLeft(_)
DeepestLeft(node) ==
    IF node.type = "JoinClause" THEN DeepestLeft(node.left_node) ELSE node

\* the compiled tree has two leaves or more and its plan was built
JoinBuilt == IF FormulaCompiled /\ Succeeded THEN Len(RootLeaves) >= 2 ELSE FALSE

\* C23: the join clause of n >= 2 leaves is a left-deep binary tree of n-1 inner joins,
\* each with a single aliased entity on its right and a join (or, deepest, a single
\* aliased entity) on its left.  Every leaf's alias occurs once: the first leaf is the
\* root's right node, the last the deepest left node.  Leaves of the same entity key
\* share one entity object under distinct aliases.
C23_JoinTreeShape ==
    JoinBuilt =>
        LET leaves == RootLeaves
            root == plan.from_clause
            nodes == get_alias_node_map(root)
        IN  /\ root.type = "JoinClause"
            /\ JoinNodes(root) = Len(leaves) - 1
            /\ LeftDeep(root)
            /\ JoinAliases(root) = [i \in DOMAIN leaves |-> leaves[i].table_alias]
            /\ root.right_node.alias = leaves[1].table_alias
            /\ DeepestLeft(root).alias = leaves[Len(leaves)].table_alias
            /\ \A i, j \in DOMAIN nodes :
                /\ i # j => nodes[i].alias # nodes[j].alias
                /\ nodes[i].data_source.key = nodes[j].data_source.key
                        => nodes[i].data_source = nodes[j].data_source

\* three leaves, the first and the last of the same entity
C23_Witness ==
    /\ JoinBuilt
    /\ Len(RootLeaves) = 3
    /\ JoinNodes(plan.from_clause) = 2
    /\ plan.from_clause.right_node.data_source = DeepestLeft(plan.from_clause).data_source
    /\ plan.from_clause.right_node.data_source
            # plan.from_clause.left_node.right_node.data_source

----------------------------------------------------------------------------
(* Properties of the selected expression of a formula (specification Spec) *)

\* an expression with `table_name` as the table qualifier of its columns
RECURSIVE WithQualifier(_, _)
WithQualifier(expression, table_name) ==
    IF expression.type = "Column" THEN [expression EXCEPT !.table_name = table_name]
    ELSE IF expression.type \in {"FunctionCall", "CurriedFunctionCall"}
    THEN [expression EXCEPT !.parameters =
            [i \in DOMAIN expression.parameters |->
                WithQualifier(expression.parameters[i], table_name)]]
    ELSE expression

\* what an operand contributes: a literal for a number, a function call named after
\* the operator for a formula, its own expression (less its alias) for a leaf
RECURSIVE OperandExpression(_, _)
OperandExpression(param, single) ==
    IF ~IsInitialParseResult(param) THEN Literal(None, param)
    ELSE IF param.formula # None
    THEN FunctionCall(None, param.formula,
            [i \in DOMAIN param.parameters |->
                OperandExpression(param.parameters[i], single)])
    ELSE [WithQualifier(param.expression.expression,
                        IF single THEN <<>> ELSE param.table_alias)
            EXCEPT !.alias = None]

\* a compiled formula whose leaves the compiler has no other reason to reject: each
\* has an expression and a metric of the dataset, and all have the same groupby
FormulaOfLeaves ==
    IF FormulaCompiled
    THEN LET leaves == RootLeaves
         IN  /\ leaves # <<>>
             /\ same_groupby(leaves)
             /\ \A i \in DOMAIN leaves :
                    /\ leaves[i].expression # NoneValue
                    /\ leaves[i].mri[1] \in Resolves(body_dataset)
    ELSE FALSE

\* C24: the first selected column of a formula's plan is the function call named after
\* the root operator over what its operands contribute, in their order: a nested
\* formula a function call named after its operator over its operands, a number a
\* literal, and a leaf of any form the visitor makes (aggregate, curried aggregate,
\* arbitrary function over an aggregate) its own expression with the leaf's alias as the
\* table qualifier of its value column (none in a single-source plan).
C24_FormulaExpression ==
    FormulaOfLeaves =>
        /\ Succeeded
        /\ plan.selected_columns[1] =
            SelectedExpression(AGGREGATE_ALIAS,
                FunctionCall(AGGREGATE_ALIAS, stack[1].formula,
                    [i \in DOMAIN stack[1].parameters |->
                        OperandExpression(stack[1].parameters[i], Len(RootLeaves) = 1)]))

----------------------------------------------------------------------------
(* Properties of the groupby of a formula's plan (specification Spec) *)

\* the groupby columns of the leaves, leaf by leaf and column by column, each with
\* the alias of its leaf as table qualifier (none when `single`)
HoistedColumns(leaves, single) ==
    Concat([i \in DOMAIN leaves |->
        [j \in DOMAIN leaves[i].groupby |->
            SelectedExpression(leaves[i].groupby[j].name,
                Column(leaves[i].groupby[j].expression.alias,
                       IF single THEN <<>> ELSE leaves[i].table_alias,
                       leaves[i].groupby[j].expression.column_name))]])

FormulaPlanned == IF FormulaCompiled THEN Succeeded ELSE FALSE

----------------------------------------------------------------------------
(* Effects of populate_rollup on the query (specification SpecRollup) *)

\* a step of populate_rollup
RollupStep ==
    /\ context_call = "populate_rollup"
    /\ context_pc = "populate"
    /\ context_pc' = "done"

\* a rollup none of the validation rules rejects
ValidRollup ==
    LET rollup == mql_context.rollup IN
    /\ \E k \in DOMAIN GRANULARITIES_AVAILABLE :
            GRANULARITIES_AVAILABLE[k] = rollup.granularity.i
    /\ rollup.with_totals \in {None, "True", "False"}
    /\ rollup.orderby \in {None, "ASC", "DESC"}
    /\ rollup.interval = NoneValue \/ rollup.orderby = None
    /\ IF rollup.interval = NoneValue THEN TRUE
       ELSE /\ rollup.interval.i >= rollup.granularity.i
            /\ rollup.interval.i >= GRANULARITIES_AVAILABLE[1]

IsTimeBucket(expression) ==
    IF expression.type = "FunctionCall"
    THEN expression.function_name = "toStartOfInterval" /\ expression.alias = "time"
    ELSE FALSE

IsGranularityCondition(condition) ==
    /\ condition.function_name = "equals"
    /\ condition.parameters[1].column_name = "granularity"
    /\ condition.parameters[2].value = mql_context.rollup.granularity

\* C26: what a valid rollup does to the query.  With an interval one time bucket is
\* appended at the end of the selected columns and of the groupby (what was there is
\* kept, in order), the orderby becomes the one ascending entry on that bucket, and
\* totals are on exactly if with_totals is "True".  Without an interval the selected
\* columns, the groupby and the totals flag are as they were and the orderby is set, on
\* the aggregate's column in the given direction, only if a direction was given.  In
\* both cases one granularity equality is appended to the conditions.
C26_RollupEffects ==
    [][(RollupStep /\ ValidRollup) =>
        LET rollup == mql_context.rollup
            before == context_query
            after == context_query'
            n == Len(before.selected_columns)
            g == Len(before.groupby)
            c == Len(before.condition)
        IN  /\ context_outcome' = NoException
            /\ Len(after.condition) = c + 1
            /\ SubSeq(after.condition, 1, c) = before.condition
            /\ IsGranularityCondition(after.condition[c + 1])
            /\ after.from_clause = before.from_clause
            /\ IF rollup.interval # NoneValue
               THEN /\ Len(after.selected_columns) = n + 1
                    /\ SubSeq(after.selected_columns, 1, n) = before.selected_columns
                    /\ after.selected_columns[n + 1].name = "time"
                    /\ IsTimeBucket(after.selected_columns[n + 1].expression)
                    /\ Len(after.groupby) = g + 1
                    /\ SubSeq(after.groupby, 1, g) = before.groupby
                    /\ after.groupby[g + 1] = after.selected_columns[n + 1].expression
                    /\ after.orderby = <<OrderBy("ASC", after.groupby[g + 1])>>
                    /\ after.totals = (rollup.with_totals = "True")
               ELSE /\ after.selected_columns = before.selected_columns
                    /\ after.groupby = before.groupby
                    /\ after.totals = before.totals
                    /\ after.orderby =
                        IF rollup.orderby = None THEN before.orderby
                        ELSE <<OrderBy(rollup.orderby,
                                       Column(None, <<>>, AGGREGATE_ALIAS))>>]_vars

\* an interval of 60 with totals on a query grouped by x
C26_Witness ==
    /\ Populated
    /\ context_call = "populate_rollup"
    /\ mql_context.rollup = Rollup(Integer(60), Integer(60), "True", None)
    /\ context_outcome = NoException
    /\ Len(context_query.groupby) = 2
    /\ Len(context_query.selected_columns) = 3
    /\ context_query.selected_columns[3].name = "time"
    /\ context_query.totals

----------------------------------------------------------------------------
(* Shape of the intermediate nodes (specification Spec) *)

RECURSIVE NodeShape(_)
\* neither the node nor any node below it has an expression and a formula operator
NodeShape(node) ==
    IF ~IsInitialParseResult(node) THEN TRUE
    ELSE IF node.formula = None THEN TRUE
    ELSE /\ node.expression = NoneValue
         /\ \A i \in DOMAIN node.parameters : NodeShape(node.parameters[i])

\* a handler has put a new expression on the node on top of the stack
ExpressionSet ==
    /\ pc = "visit" /\ pc' = "visit"
    /\ stack # <<>>
    /\ Len(stack') = Len(stack)
    /\ IF IsInitialParseResult(Top) /\ IsInitialParseResult(stack'[Len(stack')])
       THEN stack'[Len(stack')].expression # Top.expression
       ELSE FALSE

\* C27: after any sequence of handler calls no intermediate node has both an
\* expression and a formula operator: a formula node is made without an expression,
\* and a handler that sets an expression does so on a node whose formula is unset.
C27_NodeShape ==
    /\ [](\A i \in DOMAIN stack : NodeShape(stack[i]))
    /\ [][ExpressionSet => Top.formula = None]_vars

\* a formula over an arbitrary function of an aggregate and a plain aggregate
C27_Witness ==
    /\ Len(stack) = 1
    /\ IF IsInitialParseResult(stack[1])
       THEN /\ stack[1].formula # None
            /\ Len(stack[1].parameters) = 2
            /\ IF IsInitialParseResult(stack[1].parameters[1])
               THEN IF stack[1].parameters[1].expression = NoneValue THEN FALSE
                    ELSE IF stack[1].parameters[1].expression.expression.type
                                # "FunctionCall" THEN FALSE
                    ELSE stack[1].parameters[1].expression.expression.function_name
                            \in ArbitraryFunctionNames
               ELSE FALSE
       ELSE FALSE

----------------------------------------------------------------------------
(* Operands of a chain (specification Spec) *)

RECURSIVE Reachable(_, _)
\* operand is the node itself or one of the nodes below it
Reachable(operand, node) ==
    IF operand = node THEN TRUE
    ELSE IF ~IsInitialParseResult(node) THEN FALSE
    ELSE IF node.formula = None THEN FALSE
    ELSE \E i \in DOMAIN node.parameters : Reachable(operand, node.parameters[i])

\* visit_expression or visit_term has turned the last operands on the stack, two or
\* more, into one node
ChainReduced ==
    /\ pc = "visit" /\ pc' = "visit"
    /\ Len(stack') < Len(stack)

\* C28: no operand is lost in a chain.  Every one of the m >= 2 operands joined by
\* + or - (or by * or /) is reachable from the node visit_expression (visit_term)
\* returns, so every metric leaf written in the text is among the leaves the formula
\* compiler collects.
C28_NoOperandLost ==
    [][ChainReduced =>
        /\ \A i \in Len(stack')..Len(stack) :
                Reachable(stack[i], stack'[Len(stack')])
        /\ Len(LeavesOf(stack')) = Len(LeavesOf(stack))]_vars

----------------------------------------------------------------------------
(* Rollup validation and the query (specification SpecRollup) *)

\* C29: rollup validation is atomic.  Whenever populate_rollup raises a validation
\* error (granularity, with_totals, orderby, interval together with orderby, interval
\* below the granularity) the query is exactly as it was before the call: no
\* granularity condition has been appended to it.
C29_RollupValidationAtomic ==
    [][(RollupStep /\ context_outcome' # NoException) =>
            context_query' = context_query]_vars

----------------------------------------------------------------------------
(* Query settings in parse_mql_query_new (specification SpecPipeline) *)

\* the steps of stage B that are called with settings
StageBSettingsSteps(custom_processing) ==
    {step \in Range(stage_b_steps(custom_processing)) : step # "VALIDATORS"}

\* C30: caller settings reach stage B.  When parse_mql_query_new is called with query
\* settings, the settings object handed to the generic post-processors, the
\* filter-in-select optimizer, the custom processors and the time-condition step is the
\* caller's settings object; default settings are used only when the caller passed
\* none.
C30_CallerSettingsReachStageB ==
    \A i \in DOMAIN pipeline_calls :
        IF pipeline_calls[i] \in StageBSettingsSteps(pipeline_input.custom_processing)
        THEN IF pipeline_input.settings # NoneValue
             THEN settings_passed[i] = pipeline_input.settings
             ELSE settings_passed[i].type = "HTTPQuerySettings"
        ELSE TRUE

====
